---------------------------- MODULE Spec2Model ----------------------------
(***************************************************************************)
(* Trajectory-replay mock LLM server (src/tui_e2e/mock_llm_server.py).     *)
(*                                                                         *)
(* TrajectoryReplayState is a list of events and a cursor guarded by a     *)
(* threading.Lock; the request handler made by create_request_handler      *)
(* serves health, reset and chat-completions requests on worker threads.   *)
(*                                                                         *)
(* Specifications:                                                         *)
(*   SpecReplay  threads calling get_next_response / peek_next_response /  *)
(*               reset directly, any number of times, in any interleaving  *)
(*   SpecOnce    every thread calls get_next_response exactly once         *)
(*   Spec        HTTP worker threads running the request handler           *)
(*   SpecConvert the handler over a one-event list of any event shape,     *)
(*               one request at a time                                     *)
(*   SpecServer  start / stop / reset calls on a MockLLMServer, any order  *)
(*   SpecScoped  a MockLLMServer used through the with statement           *)
(*   SpecNoTrajectory  a MockLLMServer made without a trajectory, serving  *)
(*               requests between start and stop                           *)
(*   SpecRestart a MockLLMServer with a trajectory, started, stopped and   *)
(*               started again, serving requests one at a time             *)
(*   SpecReplayFair    SpecReplay under fair scheduling                    *)
(*   SpecMcp     one call of handle_mcp_command                            *)
(*               (src/openhands_cli/mcp/mcp_commands.py)                   *)
(*   SpecShared  one worker thread running the handler and one thread      *)
(*               calling the same replay state directly                    *)
(***************************************************************************)
EXTENDS Integers, Sequences, FiniteSets, TLC

\* ---------------------------------------------------------------- bounds
NThreads == 3        \* threads in all; in SpecOnce each of them makes one call
NCallers == 2        \* threads that keep calling the replay state in SpecReplay
NWorkers == 2        \* HTTP worker threads running the handler in Spec
MaxEvents == 3       \* longest trajectory response list
MaxExtraDraws == 1   \* draws past the end of the list that are counted
MaxStarts == 2       \* start() calls made on one MockLLMServer
MaxStops == 3        \* stop() calls made on one MockLLMServer

Min(a, b) == IF a <= b THEN a ELSE b

Threads == 1..NThreads
Callers == 1..Min(NCallers, NThreads)
Workers == 1..Min(NWorkers, NThreads)
NoThread == 0

\* Python values. A dict is a record (the empty dict the empty function); a
\* slot that holds values of several Python types holds them tagged: None,
\* Str(s) for a str, List(q) for a list.
None == [py |-> "None"]
Str(s) == [str |-> s]
List(q) == [list |-> q]
EmptyDict == <<>>
IsStr(v) == DOMAIN v = {"str"}
IsList(v) == DOMAIN v = {"list"}

\* An exception raised and not caught where it was raised.
Raised(exc) == [py |-> exc]
IndexError == Raised("IndexError")

\* dict.get(key, default)
Get(d, key, default) == IF key \in DOMAIN d THEN d[key] ELSE default

\* Python truth value of None, a dict or a tagged str
Truthy(v) == v \notin {None, EmptyDict, Str("")}

\* ------------------------------------------------------------ the state
VARIABLES
    responses,       \* TrajectoryReplayState.responses
    current_index,   \* TrajectoryReplayState.current_index
    lock,            \* TrajectoryReplayState._lock: the thread holding it, or NoThread
    pc,              \* per thread: where it is in the method it is running
    response,        \* per thread: the local `response` / the value the call returns
    ticket,          \* history, per thread: which draw since the last reset this call took
    nGets,           \* history: draws taken since the last reset (counted to a cap)
    req,             \* per worker thread: the request its handler call is serving
    exchange,        \* the request and the response of the handler call that has just
                     \* returned, until the response is sent; NoExchange otherwise
    peeked,          \* history, per thread: what its peek_next_response() returned and
                     \* the cursor it saw, while no call has moved the cursor since
    trajectory,      \* MockLLMServer.trajectory: None, or its list of LLM responses
    server,          \* MockLLMServer._server: None, or the HTTPServer it refers to
    replay_state,    \* MockLLMServer._replay_state: None, or the state it owns
    listeners,       \* the HTTPServer objects made so far: is each one running, and
                     \* (history) how often its stop() was called
    scope,           \* where the `with MockLLMServer(...)` block is
    calls,           \* history: how many start(), stop() and (line 360)
                     \* trajectory.get_llm_responses() calls were made
    args,            \* the argparse.Namespace handle_mcp_command is called with
    cli,             \* where handle_mcp_command is, the exception it caught, the
                     \* exception that left it, and (history) the handlers called
    printed          \* what print_formatted_text has printed, in order

replayVars == <<responses, current_index, lock, pc, response, ticket, nGets>>
routerVars == <<req, exchange>>
serverVars == <<trajectory, server, replay_state, listeners, scope, calls>>
cliVars == <<args, cli, printed>>
vars == <<replayVars, routerVars, peeked, serverVars, cliVars>>

NoRequest == [method |-> "", path |-> "", data |-> ""]
NoExchange == [req |-> NoRequest]
NoPeek == [at |-> -1]
NoCalls == [start |-> 0, stop |-> 0, get_llm_responses |-> 0]
NoArgs == [mcp_command |-> None, name |-> ""]
NoCli == [pc |-> "not_called", e |-> None, raised |-> "", ran |-> <<>>]

\* ------------------------------------------------------------- requests
\* The requests a client may send: a method, a path and the bytes of a body.
Methods == {"GET", "POST"}
Paths == {"/health", "/", "/reset", "/chat/completions",
          "/v1/chat/completions", "/v1/models"}
Bodies == {"\\xff",                 \* one byte that is not UTF-8
           "{\"stream\": tru",      \* cut short
           "[]",                    \* JSON, not an object
           "{}",
           "{\"stream\": true}",
           "{\"stream\": false}"}
AllRequests == [method : Methods, path : Paths, data : Bodies]

IsDict(v) == DOMAIN v = {"dict"}

\* json.loads(request.data), line 289: the value, or the exception raised.
\* bytes are decoded first (UnicodeDecodeError), then parsed (JSONDecodeError).
JsonLoads(data) ==
    CASE data = "\\xff" -> [raises |-> "UnicodeDecodeError", value |-> None]
      [] data = "{\"stream\": tru" -> [raises |-> "JSONDecodeError", value |-> None]
      [] data = "[]" -> [raises |-> "", value |-> List(<<>>)]
      [] data = "{}" -> [raises |-> "", value |-> [dict |-> EmptyDict]]
      [] data = "{\"stream\": true}" -> [raises |-> "", value |-> [dict |-> [stream |-> TRUE]]]
      [] data = "{\"stream\": false}" -> [raises |-> "", value |-> [dict |-> [stream |-> FALSE]]]

\* The handler's chain of tests on path and method, lines 264, 278, 287, 316.
RouteAnyMethod(r) ==
    IF r.path \in {"/health", "/"} THEN "health"
    ELSE IF r.path = "/reset" THEN "reset"
    ELSE IF r.path \in {"/chat/completions", "/v1/chat/completions"} THEN "chat"
    ELSE "not_found"
Route(r) ==
    IF r.path \in {"/health", "/"} /\ r.method = "GET" THEN "health"
    ELSE IF r.path = "/reset" /\ r.method = "GET" THEN "reset"
    ELSE IF r.path \in {"/chat/completions", "/v1/chat/completions"}
            /\ r.method = "POST" THEN "chat"
    ELSE "not_found"

\* The handler reads the body of a chat request only (line 289): the other
\* requests are sent with one body.
Requests == { r \in AllRequests : Route(r) = "chat" \/ r.data = "{}" }

\* The requests that take each of the handler's four branches.
HealthRequests == { r \in Requests : Route(r) = "health" }
ResetRequests == { r \in Requests : Route(r) = "reset" }
ChatRequests == { r \in Requests : Route(r) = "chat" }
OtherRequests == { r \in Requests : Route(r) = "not_found" }

\* A chat request that gets as far as the draw of line 298: its body parses
\* (line 289) and the parsed value has a get method (line 297).
WellFormedChat(r) ==
    /\ r # NoRequest
    /\ Route(r) = "chat"
    /\ JsonLoads(r.data).raises = ""
    /\ IsDict(JsonLoads(r.data).value)

\* ------------------------------------------------------ TrajectoryEvent
\* A trajectory event: an object (eid is its identity) with the attributes
\* the server reads: kind, tool_call, llm_message, tool_name.
Event(i, shape) ==
    [eid |-> i, kind |-> shape.kind, tool_call |-> shape.tool_call,
     llm_message |-> shape.llm_message, tool_name |-> shape.tool_name]

ToolCallShape ==
    [kind |-> "ActionEvent",
     tool_call |-> [id |-> "call_1", name |-> "terminal", arguments |-> "{\"command\": \"ls\"}"],
     llm_message |-> None, tool_name |-> Str("terminal")]
MessageShape ==
    [kind |-> "MessageEvent", tool_call |-> None,
     llm_message |-> [role |-> "assistant", content |-> Str("hello")],
     tool_name |-> None]
ObservationShape ==
    [kind |-> "ObservationEvent", tool_call |-> None, llm_message |-> None,
     tool_name |-> Str("terminal")]

\* The recorded conversation the lists below are cut from: a tool call, its
\* observation kind (unhandled), a message, and so on.
TapeShapes == <<ToolCallShape, MessageShape, ObservationShape>>
Tape(i) == Event(i, TapeShapes[((i - 1) % Len(TapeShapes)) + 1])

\* The response lists the replay state may be built over: length 0..MaxEvents,
\* the objects pairwise distinct.
ReplayLists == { [i \in 1..n |-> Tape(i)] : n \in 0..MaxEvents }

DrawCap == Len(responses) + MaxExtraDraws

\* A step inside a TrajectoryReplayState method: no handler call returns.
\* (The response of a handler call is sent before the next step is looked at:
\* sending it touches nothing the threads share.)
Quiet ==
    /\ exchange = NoExchange
    /\ UNCHANGED <<req, exchange>>
    /\ UNCHANGED <<serverVars, cliVars>>

\* ------------------------------------------------- OpenAIResponseBuilder
\* line 43
DEFAULT_USAGE ==
    [prompt_tokens |-> 100, completion_tokens |-> 50, total_tokens |-> 150]

\* build_completion, lines 80-95; created is the clock read at line 89.
\* finish_reason is a str here, and a str or None in a chunk: it is held tagged.
build_completion(completion_id, message, finish_reason, created) ==
    [id |-> completion_id,
     object |-> "chat.completion",
     created |-> created,
     model |-> "mock-llm",
     choices |-> << [index |-> 0, message |-> message,
                     finish_reason |-> Str(finish_reason)] >>,
     usage |-> DEFAULT_USAGE]

\* build_stream_chunk, lines 98-110; created is the clock read at line 107
build_stream_chunk(completion_id, delta, finish_reason, created) ==
    [id |-> completion_id,
     object |-> "chat.completion.chunk",
     created |-> created,
     model |-> "mock-llm",
     choices |-> << [index |-> 0, delta |-> delta,
                     finish_reason |-> finish_reason] >>]

\* build_message_chunks, lines 113-121; clock[2..4] are the three clock reads
build_message_chunks_in_first(completion_id, content, finish_reason, clock) ==
    << build_stream_chunk(completion_id,
                          [role |-> "assistant", content |-> Str(content)], None, clock[2]),
       build_stream_chunk(completion_id, [content |-> Str("")], None, clock[3]),
       build_stream_chunk(completion_id, EmptyDict, Str(finish_reason), clock[4]) >>
build_message_chunks(completion_id, content, finish_reason, clock) ==
    << build_stream_chunk(completion_id,
                          [role |-> "assistant", content |-> Str("")], None, clock[2]),
       build_stream_chunk(completion_id, [content |-> Str(content)], None, clock[3]),
       build_stream_chunk(completion_id, EmptyDict, Str(finish_reason), clock[4]) >>

\* build_tool_call_chunks, lines 124-149
build_tool_call_chunks_at_once(completion_id, tool_call_id, tool_name, arguments, clock) ==
    << build_stream_chunk(
           completion_id,
           [role |-> "assistant",
            content |-> None,
            tool_calls |-> << [index |-> 0,
                               id |-> tool_call_id,
                               type |-> "function",
                               function |-> [name |-> tool_name,
                                             arguments |-> arguments]] >>],
           None, clock[2]),
       build_stream_chunk(
           completion_id,
           [tool_calls |-> << [index |-> 0,
                               function |-> [arguments |-> arguments]] >>],
           None, clock[3]),
       build_stream_chunk(completion_id, EmptyDict, Str("tool_calls"), clock[4]) >>
build_tool_call_chunks(completion_id, tool_call_id, tool_name, arguments, clock) ==
    << build_stream_chunk(
           completion_id,
           [role |-> "assistant",
            content |-> None,
            tool_calls |-> << [index |-> 0,
                               id |-> tool_call_id,
                               type |-> "function",
                               function |-> [name |-> tool_name, arguments |-> ""]] >>],
           None, clock[2]),
       build_stream_chunk(
           completion_id,
           [tool_calls |-> << [index |-> 0,
                               function |-> [arguments |-> arguments]] >>],
           None, clock[3]),
       build_stream_chunk(completion_id, EmptyDict, Str("tool_calls"), clock[4]) >>

\* -------------------------------------------- TrajectoryResponseConverter
\* What a conversion takes from outside: the uuid4 hex digits of the
\* completion id and of a synthesized tool-call id, and the four clock reads
\* (build_completion, then the three chunks), which never run backwards.
HexPool == {"0a1b", "9f8e"}
Clocks == { <<1, 1, 1, 1>>, <<1, 1, 2, 2>> }
Entropy == [hex : HexPool, call_hex : HexPool, clock : Clocks]

\* The draws that can show in the envelope of `event`: the tool-call id is
\* synthesized (line 187) only for a tool call that has none.
EntropyUsed(event) ==
    { rnd \in Entropy :
        \/ event \notin {None, IndexError} /\ Truthy(event.tool_call)
                                          /\ "id" \notin DOMAIN event.tool_call
        \/ rnd.call_hex = rnd.hex }

\* create_default_response, lines 163-179
create_default_response_fixed_id(content, rnd) ==
    LET completion_id == "chatcmpl-" \o "0a1b"
    IN  [completion |->
            build_completion(completion_id,
                             [role |-> "assistant", content |-> Str(content)],
                             "stop", rnd.clock[1]),
         stream_chunks |->
            build_message_chunks(completion_id, content, "stop", rnd.clock)]
create_default_response(content, rnd) ==
    LET completion_id == "chatcmpl-" \o rnd.hex
    IN  [completion |->
            build_completion(completion_id,
                             [role |-> "assistant", content |-> Str(content)],
                             "stop", rnd.clock[1]),
         stream_chunks |->
            build_message_chunks(completion_id, content, "stop", rnd.clock)]

\* the default of create_default_response's content parameter, line 164
DefaultContent == "Task completed."

\* _create_tool_call_response, lines 181-211
create_tool_call_response_unknown_name(event, rnd) ==
    LET tool_call == event.tool_call
        tool_call_id == Get(tool_call, "id", "call_" \o rnd.call_hex)
        tool_name == Get(tool_call, "name", "unknown")
        arguments == Get(tool_call, "arguments", "{}")
        completion_id == "chatcmpl-" \o rnd.hex
        message == [role |-> "assistant",
                    content |-> None,
                    tool_calls |-> << [id |-> tool_call_id,
                                       type |-> "function",
                                       function |-> [name |-> tool_name,
                                                     arguments |-> arguments]] >>]
    IN  IF ~Truthy(tool_call)
          THEN create_default_response(DefaultContent, rnd)
          ELSE [completion |->
                   build_completion(completion_id, message, "tool_calls",
                                    rnd.clock[1]),
                stream_chunks |->
                   build_tool_call_chunks(completion_id, tool_call_id, tool_name,
                                          arguments, rnd.clock)]
create_tool_call_response_random_name(event, rnd) ==
    LET tool_call == event.tool_call
        tool_call_id == Get(tool_call, "id", "call_" \o rnd.call_hex)
        tool_name == Get(tool_call, "name", "tool_" \o rnd.hex)
        arguments == Get(tool_call, "arguments", "{}")
        completion_id == "chatcmpl-" \o rnd.hex
        message == [role |-> "assistant",
                    content |-> None,
                    tool_calls |-> << [id |-> tool_call_id,
                                       type |-> "function",
                                       function |-> [name |-> tool_name,
                                                     arguments |-> arguments]] >>]
    IN  IF ~Truthy(tool_call)
          THEN create_default_response(DefaultContent, rnd)
          ELSE [completion |->
                   build_completion(completion_id, message, "tool_calls",
                                    rnd.clock[1]),
                stream_chunks |->
                   build_tool_call_chunks(completion_id, tool_call_id, tool_name,
                                          arguments, rnd.clock)]
create_tool_call_response_raw_chunks(event, rnd) ==
    LET tool_call == event.tool_call
        tool_call_id == Get(tool_call, "id", "call_" \o rnd.call_hex)
        tool_name == Get(tool_call, "name",
                         IF Truthy(event.tool_name)
                           THEN event.tool_name.str ELSE "unknown")
        arguments == Get(tool_call, "arguments", "{}")
        completion_id == "chatcmpl-" \o rnd.hex
        message == [role |-> "assistant",
                    content |-> None,
                    tool_calls |-> << [id |-> tool_call_id,
                                       type |-> "function",
                                       function |-> [name |-> tool_name,
                                                     arguments |-> arguments]] >>]
    IN  IF ~Truthy(tool_call)
          THEN create_default_response(DefaultContent, rnd)
          ELSE [completion |->
                   build_completion(completion_id, message, "tool_calls",
                                    rnd.clock[1]),
                stream_chunks |->
                   build_tool_call_chunks(completion_id, tool_call_id,
                                          Get(tool_call, "name", "unknown"),
                                          Get(tool_call, "arguments", ""),
                                          rnd.clock)]
create_tool_call_response(event, rnd) ==
    LET tool_call == event.tool_call
        tool_call_id == Get(tool_call, "id", "call_" \o rnd.call_hex)
        tool_name == Get(tool_call, "name",
                         IF Truthy(event.tool_name)
                           THEN event.tool_name.str ELSE "unknown")
        arguments == Get(tool_call, "arguments", "{}")
        completion_id == "chatcmpl-" \o rnd.hex
        message == [role |-> "assistant",
                    content |-> None,
                    tool_calls |-> << [id |-> tool_call_id,
                                       type |-> "function",
                                       function |-> [name |-> tool_name,
                                                     arguments |-> arguments]] >>]
    IN  IF ~Truthy(tool_call)
          THEN create_default_response(DefaultContent, rnd)
          ELSE [completion |->
                   build_completion(completion_id, message, "tool_calls",
                                    rnd.clock[1]),
                stream_chunks |->
                   build_tool_call_chunks(completion_id, tool_call_id, tool_name,
                                          arguments, rnd.clock)]

\* "".join(...) over the text blocks of a content list, lines 238-242
RECURSIVE JoinText(_)
JoinText(items) ==
    IF items = <<>> THEN ""
    ELSE LET item == Head(items)
         IN  (IF ~IsStr(item) /\ ~IsList(item) /\ item # None
                 /\ Get(item, "type", "") = "text"
                THEN Get(item, "text", "") ELSE "")
             \o JoinText(Tail(items))

\* _extract_content, lines 232-243
extract_content_any_block(llm_message) ==
    LET content == Get(llm_message, "content", Str(""))
        RECURSIVE JoinAll(_)
        JoinAll(items) ==
            IF items = <<>> THEN ""
            ELSE Get(Head(items), "text", "") \o JoinAll(Tail(items))
    IN  IF IsStr(content) THEN content.str
        ELSE IF IsList(content) THEN JoinAll(content.list)
        ELSE ""
extract_content(llm_message) ==
    LET content == Get(llm_message, "content", Str(""))
    IN  IF IsStr(content) THEN content.str
        ELSE IF IsList(content) THEN JoinText(content.list)
        ELSE ""

\* _create_message_response, lines 213-229
create_message_response(event, rnd) ==
    LET llm_message == event.llm_message
        completion_id == "chatcmpl-" \o rnd.hex
        content == extract_content(llm_message)
    IN  IF ~Truthy(llm_message)
          THEN create_default_response(DefaultContent, rnd)
          ELSE [completion |->
                   build_completion(completion_id,
                                    [role |-> "assistant", content |-> Str(content)],
                                    "stop", rnd.clock[1]),
                stream_chunks |->
                   build_message_chunks(completion_id, content, "stop", rnd.clock)]

\* convert_event, lines 155-161
convert_event_by_attribute(event, rnd) ==
    IF Truthy(event.tool_call)
      THEN create_tool_call_response(event, rnd)
    ELSE IF Truthy(event.llm_message)
      THEN create_message_response(event, rnd)
    ELSE create_default_response(DefaultContent, rnd)
convert_event(event, rnd) ==
    IF event.kind = "ActionEvent" /\ Truthy(event.tool_call)
      THEN create_tool_call_response(event, rnd)
    ELSE IF event.kind = "MessageEvent" /\ Truthy(event.llm_message)
      THEN create_message_response(event, rnd)
    ELSE create_default_response(DefaultContent, rnd)

\* json.dumps(x): the JSON text of x
JsonDumps(x) == [json |-> x]

\* _format_sse_response, lines 246-250: the frames "data: <json>\n\n" of the
\* chunks, then "data: [DONE]\n\n", joined in this order.
format_sse_without_done(chunks) ==
    [text |->
        [i \in 1..Len(chunks) |->
            [prefix |-> "data: ", payload |-> JsonDumps(chunks[i]), suffix |-> "\n\n"]]]
format_sse_response(chunks) ==
    [text |->
        [i \in 1..Len(chunks) |->
            [prefix |-> "data: ", payload |-> JsonDumps(chunks[i]), suffix |-> "\n\n"]]
        \o << [prefix |-> "data: ", payload |-> [raw |-> "[DONE]"], suffix |-> "\n\n"] >>]

\* ------------------------------------------------- TrajectoryReplayState
\* threading.Lock: `with self._lock` enters only when no thread holds it.
LockNeverHeld == TRUE
LockFree == lock = NoThread

\* `with self._lock:` (lines 56, 65, 72): block until the lock is free, take it.
Acquire(t, at, next) ==
    /\ pc[t] = at
    /\ LockFree
    /\ lock' = t
    /\ pc' = [pc EXCEPT ![t] = next]

\* Leaving the with-block releases the lock; the method returns.
Release(t, at, done) ==
    /\ pc[t] = at
    /\ lock' = NoThread
    /\ pc' = [pc EXCEPT ![t] = done]

\* line 57: if self.current_index >= len(self.responses)
ExhaustedOffByOne == current_index > Len(responses)
Exhausted == current_index >= Len(responses)

\* history: the draws that are counted are those of direct callers and of
\* well-formed chat requests (the only handler calls that draw).
Counted(t) == req[t] = NoRequest \/ WellFormedChat(req[t])

\* get_next_response, line 56
GnrLock(t) ==
    /\ Quiet
    /\ Acquire(t, "gnr_lock", "gnr_check")
    /\ UNCHANGED <<responses, current_index, response, ticket, nGets>>
    /\ UNCHANGED peeked

\* get_next_response, lines 57-58: return None when the list is used up.
\* (history: this call takes the next draw number since the last reset)
GnrCheckAdvancesOnEmpty(t) ==
    /\ Quiet
    /\ pc[t] = "gnr_check"
    /\ IF Exhausted
         THEN /\ response' = [response EXCEPT ![t] = None]
              /\ pc' = [pc EXCEPT ![t] = "gnr_unlock"]
              /\ current_index' = current_index + 1
         ELSE /\ pc' = [pc EXCEPT ![t] = "gnr_read"]
              /\ UNCHANGED <<response, current_index>>
    /\ nGets' = IF Counted(t) THEN Min(nGets + 1, DrawCap) ELSE nGets
    /\ ticket' = [ticket EXCEPT ![t] = IF Counted(t) THEN Min(nGets + 1, DrawCap) ELSE 0]
    /\ UNCHANGED <<responses, lock>>
    /\ UNCHANGED peeked
GnrCheck(t) ==
    /\ Quiet
    /\ pc[t] = "gnr_check"
    /\ IF Exhausted
         THEN /\ response' = [response EXCEPT ![t] = None]
              /\ pc' = [pc EXCEPT ![t] = "gnr_unlock"]
         ELSE /\ pc' = [pc EXCEPT ![t] = "gnr_read"]
              /\ UNCHANGED response
    /\ nGets' = IF Counted(t) THEN Min(nGets + 1, DrawCap) ELSE nGets
    /\ ticket' = [ticket EXCEPT ![t] = IF Counted(t) THEN Min(nGets + 1, DrawCap) ELSE 0]
    /\ UNCHANGED <<responses, current_index, lock>>
    /\ UNCHANGED peeked

\* list indexing, self.responses[i] with i >= 0: the element, or IndexError
\* (Python lists are 0-based, sequences 1-based)
Item(list, i) == IF i < Len(list) THEN list[i + 1] ELSE IndexError

\* get_next_response, line 59: response = self.responses[self.current_index]
\* An IndexError leaves the with-block (the lock is released) and the method.
GnrReadPops(t) ==
    /\ Quiet
    /\ pc[t] = "gnr_read"
    /\ response' = [response EXCEPT ![t] = Item(responses, current_index)]
    /\ pc' = [pc EXCEPT ![t] =
                 IF Item(responses, current_index) = IndexError
                   THEN "gnr_unlock" ELSE "gnr_incr"]
    /\ responses' = [i \in 1..(Len(responses) - 1) |->
                        IF i <= current_index THEN responses[i] ELSE responses[i + 1]]
    /\ UNCHANGED <<current_index, lock, ticket, nGets>>
    /\ UNCHANGED peeked
GnrReadNext(t) ==
    /\ Quiet
    /\ pc[t] = "gnr_read"
    /\ response' = [response EXCEPT ![t] = Item(responses, current_index + 1)]
    /\ pc' = [pc EXCEPT ![t] =
                 IF Item(responses, current_index + 1) = IndexError
                   THEN "gnr_unlock" ELSE "gnr_incr"]
    /\ UNCHANGED <<responses, current_index, lock, ticket, nGets>>
    /\ UNCHANGED peeked
GnrRead(t) ==
    /\ Quiet
    /\ pc[t] = "gnr_read"
    /\ response' = [response EXCEPT ![t] = Item(responses, current_index)]
    /\ pc' = [pc EXCEPT ![t] =
                 IF Item(responses, current_index) = IndexError
                   THEN "gnr_unlock" ELSE "gnr_incr"]
    /\ UNCHANGED <<responses, current_index, lock, ticket, nGets>>
    /\ UNCHANGED peeked

\* get_next_response, line 60: self.current_index += 1
GnrIncr(t) ==
    /\ Quiet
    /\ pc[t] = "gnr_incr"
    /\ current_index' = current_index + 1
    /\ pc' = [pc EXCEPT ![t] = "gnr_unlock"]
    /\ UNCHANGED <<responses, lock, response, ticket, nGets>>
    /\ peeked' = [u \in Threads |-> IF u = t THEN peeked[u] ELSE NoPeek]

\* get_next_response, lines 58 and 61: leave the with-block and return
GnrUnlockKeepsOnEmpty(t) ==
    /\ Quiet
    /\ pc[t] = "gnr_unlock"
    /\ lock' = IF response[t] = None THEN lock ELSE NoThread
    /\ pc' = [pc EXCEPT ![t] = "gnr_done"]
    /\ UNCHANGED <<responses, current_index, response, ticket, nGets>>
    /\ UNCHANGED peeked
GnrUnlock(t) ==
    /\ Quiet
    /\ Release(t, "gnr_unlock", "gnr_done")
    /\ UNCHANGED <<responses, current_index, response, ticket, nGets>>
    /\ UNCHANGED peeked

\* peek_next_response, line 65
PeekLock(t) ==
    /\ Quiet
    /\ Acquire(t, "peek_lock", "peek_check")
    /\ UNCHANGED <<responses, current_index, response, ticket, nGets>>
    /\ UNCHANGED peeked

\* peek_next_response, lines 66-68
PeekCheckAdvances(t) ==
    /\ Quiet
    /\ pc[t] = "peek_check"
    /\ response' = [response EXCEPT ![t] =
                       IF Exhausted THEN None ELSE Item(responses, current_index)]
    /\ current_index' = IF Exhausted THEN current_index ELSE current_index + 1
    /\ pc' = [pc EXCEPT ![t] = "peek_unlock"]
    /\ peeked' = [peeked EXCEPT ![t] = [event |-> response'[t], at |-> current_index]]
    /\ UNCHANGED <<responses, lock, ticket, nGets>>
PeekCheck(t) ==
    /\ Quiet
    /\ pc[t] = "peek_check"
    /\ response' = [response EXCEPT ![t] =
                       IF Exhausted THEN None ELSE Item(responses, current_index)]
    /\ pc' = [pc EXCEPT ![t] = "peek_unlock"]
    /\ UNCHANGED <<responses, current_index, lock, ticket, nGets>>
    /\ peeked' = [peeked EXCEPT ![t] = [event |-> response'[t], at |-> current_index]]

\* peek_next_response, lines 67-68: leave the with-block and return
PeekUnlock(t) ==
    /\ Quiet
    /\ Release(t, "peek_unlock", "peek_done")
    /\ UNCHANGED <<responses, current_index, response, ticket, nGets>>
    /\ UNCHANGED peeked

\* reset, line 72
ResetLock(t) ==
    /\ Quiet
    /\ Acquire(t, "reset_lock", "reset_assign")
    /\ UNCHANGED <<responses, current_index, response, ticket, nGets>>
    /\ UNCHANGED peeked

\* reset, line 73: self.current_index = 0
\* (history: the count of draws since the last reset starts again)
ResetAssignWhenExhausted(t) ==
    /\ Quiet
    /\ pc[t] = "reset_assign"
    /\ current_index' = IF Exhausted THEN 0 ELSE current_index
    /\ pc' = [pc EXCEPT ![t] = "reset_unlock"]
    /\ nGets' = 0
    /\ UNCHANGED <<responses, lock, response, ticket>>
    /\ peeked' = [u \in Threads |-> NoPeek]
ResetAssign(t) ==
    /\ Quiet
    /\ pc[t] = "reset_assign"
    /\ current_index' = 0
    /\ pc' = [pc EXCEPT ![t] = "reset_unlock"]
    /\ nGets' = 0
    /\ UNCHANGED <<responses, lock, response, ticket>>
    /\ peeked' = [u \in Threads |-> NoPeek]

\* reset, line 73: leave the with-block; reset returns None
ResetUnlock(t) ==
    /\ Quiet
    /\ Release(t, "reset_unlock", "reset_done")
    /\ response' = [response EXCEPT ![t] = None]
    /\ UNCHANGED <<responses, current_index, ticket, nGets>>
    /\ UNCHANGED peeked

\* One step of a thread inside get_next_response.
GetStep(t) ==
    \/ GnrLock(t) \/ GnrCheck(t) \/ GnrRead(t) \/ GnrIncr(t) \/ GnrUnlock(t)

\* One step of a thread inside peek_next_response.
PeekStep(t) ==
    \/ PeekLock(t) \/ PeekCheck(t) \/ PeekUnlock(t)

\* One step of a thread inside reset.
ResetStep(t) ==
    \/ ResetLock(t) \/ ResetAssign(t) \/ ResetUnlock(t)

\* ------------------------------------------------------- direct callers
\* A thread that is not inside a call starts one.
Idle(t) == pc[t] \in {"idle", "gnr_done", "peek_done", "reset_done"}

CallGet(t) ==
    /\ Quiet
    /\ Idle(t)
    /\ pc' = [pc EXCEPT ![t] = "gnr_lock"]
    /\ response' = [response EXCEPT ![t] = None]
    /\ ticket' = [ticket EXCEPT ![t] = 0]
    /\ UNCHANGED <<responses, current_index, lock, nGets>>
    /\ peeked' = [peeked EXCEPT ![t] = IF pc[t] = "peek_done" THEN peeked[t] ELSE NoPeek]

CallPeek(t) ==
    /\ Quiet
    /\ Idle(t)
    /\ pc' = [pc EXCEPT ![t] = "peek_lock"]
    /\ response' = [response EXCEPT ![t] = None]
    /\ ticket' = [ticket EXCEPT ![t] = 0]
    /\ UNCHANGED <<responses, current_index, lock, nGets>>
    /\ peeked' = [peeked EXCEPT ![t] = NoPeek]

CallReset(t) ==
    /\ Quiet
    /\ Idle(t)
    /\ pc' = [pc EXCEPT ![t] = "reset_lock"]
    /\ response' = [response EXCEPT ![t] = None]
    /\ ticket' = [ticket EXCEPT ![t] = 0]
    /\ UNCHANGED <<responses, current_index, lock, nGets>>
    /\ peeked' = [peeked EXCEPT ![t] = NoPeek]

\* TrajectoryReplayState(responses=...): lines 50-52; no request in sight, and
\* the state is used on its own, not owned by a started MockLLMServer
InitReplay ==
    /\ responses \in ReplayLists
    /\ current_index = 0
    /\ lock = NoThread
    /\ pc = [t \in Threads |-> "idle"]
    /\ response = [t \in Threads |-> None]
    /\ ticket = [t \in Threads |-> 0]
    /\ nGets = 0
    /\ req = [t \in Threads |-> NoRequest]
    /\ exchange = NoExchange
    /\ peeked = [t \in Threads |-> NoPeek]
    /\ trajectory = None
    /\ server = None
    /\ replay_state = None
    /\ listeners = <<>>
    /\ scope = "out"
    /\ calls = NoCalls
    /\ args = NoArgs
    /\ cli = NoCli
    /\ printed = <<>>

NextReplay ==
    \E t \in Callers :
        \/ CallGet(t)
        \/ CallPeek(t)
        \/ CallReset(t)
        \/ GetStep(t)
        \/ PeekStep(t)
        \/ ResetStep(t)

SpecReplay == InitReplay /\ [][NextReplay]_vars

\* Scheduling: a thread that can take a step inside a critical section
\* eventually takes it, and a thread waiting for the lock gets it if the
\* lock keeps becoming free.
ReplayFairness ==
    \A t \in Callers :
        /\ SF_vars(GnrLock(t)) /\ SF_vars(PeekLock(t)) /\ SF_vars(ResetLock(t))
        /\ WF_vars(GnrCheck(t) \/ GnrRead(t) \/ GnrIncr(t) \/ GnrUnlock(t))
        /\ WF_vars(PeekCheck(t) \/ PeekUnlock(t))
        /\ WF_vars(ResetAssign(t) \/ ResetUnlock(t))

SpecReplayFair == SpecReplay /\ ReplayFairness

\* Every thread calls get_next_response exactly once.
CallGetOnce(t) ==
    /\ pc[t] = "idle"
    /\ CallGet(t)

NextOnce ==
    \E t \in Threads :
        \/ CallGetOnce(t)
        \/ GetStep(t)

SpecOnce == InitReplay /\ [][NextOnce]_vars

\* ------------------------------------------------ create_request_handler
\* werkzeug.Response(body, status=200, content_type=..., headers=...)
Response(status, content_type, headers, body) ==
    [raised |-> "", status |-> status, content_type |-> content_type,
     headers |-> headers, body |-> body]

\* The handler call ends with an exception instead of a Response.
Unhandled(exc) ==
    [raised |-> exc, status |-> 0, content_type |-> "", headers |-> EmptyDict,
     body |-> None]

Exchange(r, resp, n, event) ==
    [req |-> r, resp |-> resp, ticket |-> n, drawn |-> event]

\* line 265: len(replay_state.responses) - replay_state.current_index
RemainingIsCursor == current_index
Remaining == Len(responses) - current_index

\* The worker threads are interchangeable: a request that comes in is run by
\* the first thread that is free.
Free(t) == pc[t] = "idle" /\ \A u \in 1..(t - 1) : pc[u] # "idle"

\* A handler call that touches no shared state but returns at once.
Answer(t, r, resp) ==
    /\ exchange = NoExchange
    /\ Free(t)
    /\ exchange' = Exchange(r, resp, 0, None)
    /\ UNCHANGED <<replayVars, req>>
    /\ UNCHANGED <<peeked, serverVars, cliVars>>

\* lines 264-275: health check; the cursor is read without the lock
HandleHealthDraws(t, r) ==
    /\ exchange = NoExchange
    /\ Free(t)
    /\ exchange' = Exchange(r,
                            Response(200, "application/json", EmptyDict,
                                     JsonDumps([status |-> "ok",
                                                server |-> "mock-llm-trajectory",
                                                responses_remaining |-> Remaining])),
                            0, None)
    /\ current_index' = IF Exhausted THEN current_index ELSE current_index + 1
    /\ UNCHANGED <<responses, lock, pc, response, ticket, nGets, req>>
    /\ UNCHANGED <<peeked, serverVars, cliVars>>
HandleHealth(t, r) ==
    /\ Answer(t, r,
              Response(200, "application/json", EmptyDict,
                       JsonDumps([status |-> "ok",
                                  server |-> "mock-llm-trajectory",
                                  responses_remaining |-> Remaining])))

\* lines 278-279: the reset endpoint calls replay_state.reset()
HandleReset(t, r) ==
    /\ exchange = NoExchange
    /\ Free(t)
    /\ req' = [req EXCEPT ![t] = r]
    /\ pc' = [pc EXCEPT ![t] = "reset_lock"]
    /\ UNCHANGED <<responses, current_index, lock, response, ticket, nGets, exchange>>
    /\ UNCHANGED <<peeked, serverVars, cliVars>>

\* lines 280-283: reset() has returned
ReturnReset(t) ==
    /\ exchange = NoExchange
    /\ pc[t] = "reset_done"
    /\ req[t] # NoRequest
    /\ exchange' = Exchange(req[t],
                            Response(200, "application/json", EmptyDict,
                                     JsonDumps([status |-> "reset"])),
                            0, None)
    /\ pc' = [pc EXCEPT ![t] = "idle"]
    /\ req' = [req EXCEPT ![t] = NoRequest]
    /\ UNCHANGED <<responses, current_index, lock, response, ticket, nGets>>
    /\ UNCHANGED <<peeked, serverVars, cliVars>>

\* lines 287-295: the body does not parse, json.JSONDecodeError is caught
HandleChatInvalidJsonDraws(t, r) ==
    /\ exchange = NoExchange
    /\ Free(t)
    /\ JsonLoads(r.data).raises = "JSONDecodeError"
    /\ exchange' = Exchange(r,
                            Response(400, "application/json", EmptyDict,
                                     JsonDumps([error |-> "Invalid JSON"])),
                            0, None)
    /\ current_index' = IF Exhausted THEN current_index ELSE current_index + 1
    /\ UNCHANGED <<responses, lock, pc, response, ticket, nGets, req>>
    /\ UNCHANGED <<peeked, serverVars, cliVars>>
HandleChatInvalidJson(t, r) ==
    /\ JsonLoads(r.data).raises = "JSONDecodeError"
    /\ Answer(t, r,
              Response(400, "application/json", EmptyDict,
                       JsonDumps([error |-> "Invalid JSON"])))

\* line 289: json.loads raises an exception that line 290 does not catch
HandleChatLoadsRaises(t, r) ==
    /\ JsonLoads(r.data).raises \notin {"", "JSONDecodeError"}
    /\ Answer(t, r, Unhandled(JsonLoads(r.data).raises))

\* line 297: request_data.get on a parsed value that is not a dict
HandleChatNotObject(t, r) ==
    /\ JsonLoads(r.data).raises = ""
    /\ ~IsDict(JsonLoads(r.data).value)
    /\ Answer(t, r, Unhandled("AttributeError"))

\* lines 287-298: the body parses to a dict; stream is read, and the handler
\* calls replay_state.get_next_response()
HandleChat(t, r) ==
    /\ exchange = NoExchange
    /\ Free(t)
    /\ JsonLoads(r.data).raises = ""
    /\ IsDict(JsonLoads(r.data).value)
    /\ req' = [req EXCEPT ![t] = r]
    /\ pc' = [pc EXCEPT ![t] = "gnr_lock"]
    /\ response' = [response EXCEPT ![t] = None]
    /\ ticket' = [ticket EXCEPT ![t] = 0]
    /\ UNCHANGED <<responses, current_index, lock, nGets, exchange>>
    /\ UNCHANGED <<peeked, serverVars, cliVars>>

\* line 297: stream = request_data.get("stream", False)
Stream(r) == Get(JsonLoads(r.data).value.dict, "stream", FALSE)

\* lines 299-302: the envelope of the drawn event, or the default one
ChatEnvelope(event, rnd) ==
    IF event = None
      THEN create_default_response(DefaultContent, rnd)
      ELSE convert_event(event, rnd)

\* lines 304-313: the stream chunks as SSE, or the completion as JSON
ChatResponse(envelope, stream) ==
    IF stream
      THEN Response(200, "text/event-stream",
                    [Cache_Control |-> "no-cache", Connection |-> "keep-alive"],
                    format_sse_response(envelope.stream_chunks))
      ELSE Response(200, "application/json", EmptyDict,
                    JsonDumps(envelope.completion))

\* lines 298-313: get_next_response() has returned (or raised)
ReturnChat(t) ==
    /\ exchange = NoExchange
    /\ pc[t] = "gnr_done"
    /\ req[t] # NoRequest
    /\ \E rnd \in EntropyUsed(response[t]) :
          exchange' =
              Exchange(req[t],
                       IF response[t] = IndexError
                         THEN Unhandled("IndexError")
                         ELSE ChatResponse(ChatEnvelope(response[t], rnd),
                                           Stream(req[t])),
                       ticket[t], response[t])
    /\ pc' = [pc EXCEPT ![t] = "idle"]
    /\ req' = [req EXCEPT ![t] = NoRequest]
    /\ response' = [response EXCEPT ![t] = None]
    /\ ticket' = [ticket EXCEPT ![t] = 0]
    /\ UNCHANGED <<responses, current_index, lock, nGets>>
    /\ UNCHANGED <<peeked, serverVars, cliVars>>

\* lines 316-320: not found
HandleNotFound(t, r) ==
    /\ Answer(t, r,
              Response(404, "application/json", EmptyDict,
                       JsonDumps([error |-> "Not found"])))

\* The transport sends the response of the handler call that returned.
Send ==
    /\ exchange # NoExchange
    /\ exchange' = NoExchange
    /\ UNCHANGED <<replayVars, req>>
    /\ UNCHANGED <<peeked, serverVars, cliVars>>

\* One handler call starts (and, when it touches no shared state, returns):
\* the branch is the first of lines 264, 278, 287, 316 whose test passes.
Handle(t) ==
    \/ \E r \in HealthRequests : HandleHealth(t, r)
    \/ \E r \in ResetRequests : HandleReset(t, r)
    \/ \E r \in ChatRequests :
          \/ HandleChatInvalidJson(t, r)
          \/ HandleChatLoadsRaises(t, r)
          \/ HandleChatNotObject(t, r)
          \/ HandleChat(t, r)
    \/ \E r \in OtherRequests : HandleNotFound(t, r)

\* The server's worker threads run the handler on the requests that come in.
Next ==
    \/ \E t \in Workers :
          \/ Handle(t)
          \/ GetStep(t)
          \/ ResetStep(t)
          \/ ReturnChat(t)
          \/ ReturnReset(t)
    \/ Send

Spec == InitReplay /\ [][Next]_vars

\* A test thread that holds server.replay_state (lines 397-400) and calls it
\* while a worker thread runs the handler on the same object.
Tester == NThreads

NextShared ==
    \/ \E t \in {1} :
          \/ Handle(t)
          \/ GetStep(t)
          \/ ResetStep(t)
          \/ ReturnChat(t)
          \/ ReturnReset(t)
    \/ Send
    \/ \E t \in {Tester} :
          \/ CallGet(t)
          \/ CallPeek(t)
          \/ CallReset(t)
          \/ GetStep(t)
          \/ PeekStep(t)
          \/ ResetStep(t)

SpecShared == InitReplay /\ [][NextShared]_vars

\* ------------------------------------------- the events a list may hold
\* The values convert_event and the two _create_* methods tell apart: the
\* kind, tool_call (None, empty, with or without id / name / arguments),
\* llm_message (None, empty, content a str, a list of blocks, None or absent)
\* and tool_name.
ToolCalls ==
    { None, EmptyDict,
      [id |-> "call_1", name |-> "terminal", arguments |-> "{\"command\": \"ls\"}"],
      [name |-> "terminal"],
      [id |-> "call_2", arguments |-> ""] }
LlmMessages ==
    { None, EmptyDict,
      [role |-> "assistant", content |-> Str("hello")],
      [role |-> "assistant", content |-> Str("")],
      [role |-> "assistant",
       content |-> List(<< [type |-> "text", text |-> "hel"],
                           [type |-> "image_url", text |-> "x"],
                           [type |-> "text", text |-> "lo"] >>)],
      [role |-> "assistant", content |-> List(<<>>)],
      [role |-> "assistant",
       content |-> List(<< [type |-> "image_url", image_url |-> "u"] >>)],
      [role |-> "assistant",
       content |-> List(<< Str("raw"),
                           [type |-> "text"],
                           [text |-> "x"],
                           [type |-> "text", text |-> "a"],
                           [type |-> "tool_result", text |-> "b"],
                           [type |-> "text", text |-> "c"] >>)],
      [role |-> "assistant", content |-> None],
      [role |-> "assistant"] }
EventShapes ==
    { sh \in [kind : {"ActionEvent", "MessageEvent", "ObservationEvent"},
              tool_call : ToolCalls, llm_message : LlmMessages,
              tool_name : {None, Str(""), Str("file_editor")}] :
        \* what the other kind's attribute holds is looked at in one case each
        /\ sh.kind = "ActionEvent" => sh.llm_message \in {None, [role |-> "assistant", content |-> Str("hello")]}
        /\ sh.kind = "MessageEvent" => sh.tool_call \in {None, [name |-> "terminal"]}
        /\ sh.kind = "ObservationEvent" => sh.tool_call = None /\ sh.llm_message = None
        /\ sh.tool_name # None => "name" \notin DOMAIN sh.tool_call }

\* A replay state over one event of any of these shapes.
ConvertLists == { << Event(1, sh) >> : sh \in EventShapes }

InitConvert ==
    /\ responses \in ConvertLists
    /\ current_index = 0
    /\ lock = NoThread
    /\ pc = [t \in Threads |-> "idle"]
    /\ response = [t \in Threads |-> None]
    /\ ticket = [t \in Threads |-> 0]
    /\ nGets = 0
    /\ req = [t \in Threads |-> NoRequest]
    /\ exchange = NoExchange
    /\ peeked = [t \in Threads |-> NoPeek]
    /\ trajectory = None
    /\ server = None
    /\ replay_state = None
    /\ listeners = <<>>
    /\ scope = "out"
    /\ calls = NoCalls
    /\ args = NoArgs
    /\ cli = NoCli
    /\ printed = <<>>

\* The router over a one-event list, one request at a time: every event
\* shape is drawn, converted and answered, as JSON and as SSE.
NextConvert ==
    \/ \E t \in {1} :
          \/ Handle(t)
          \/ GetStep(t)
          \/ ResetStep(t)
          \/ ReturnChat(t)
          \/ ReturnReset(t)
    \/ Send

SpecConvert == InitConvert /\ [][NextConvert]_vars

\* --------------------------------------------------------- MockLLMServer
\* The thread that owns the server object: it makes the start(), stop() and
\* reset() calls, one at a time, and uses the replay state through the
\* replay_state property.
Owner == 1

\* Trajectory.get_llm_responses() of the trajectory the server was given
Trajectories == { [llm_responses |-> list] : list \in ReplayLists }

\* A TrajectoryReplayState object, an HTTPServer object (by creation order)
StateObject(n) == [state |-> n]
ServerObject(i) == [httpserver |-> i]

\* HTTPServer.is_running() of the object self._server refers to
IsRunning == server # None /\ listeners[server.httpserver].running

\* history: the stop() calls that can still be counted, one kept for the
\* __exit__ of a block that was entered
StopsLeft == calls.stop + (IF scope \in {"in", "raised"} THEN 1 ELSE 0) < MaxStops

\* __init__, lines 346-351
InitServer ==
    /\ trajectory \in {None} \cup Trajectories
    /\ server = None
    /\ replay_state = None
    /\ listeners = <<>>
    /\ scope = "out"
    /\ calls = NoCalls
    /\ args = NoArgs
    /\ cli = NoCli
    /\ printed = <<>>
    /\ responses = <<>>
    /\ current_index = 0
    /\ lock = NoThread
    /\ pc = [t \in Threads |-> "idle"]
    /\ response = [t \in Threads |-> None]
    /\ ticket = [t \in Threads |-> 0]
    /\ nGets = 0
    /\ req = [t \in Threads |-> NoRequest]
    /\ exchange = NoExchange
    /\ peeked = [t \in Threads |-> NoPeek]

\* start(), lines 360-370. bound tells whether HTTPServer.start() (line 367)
\* got the port: when it did not, it raises, after lines 361 and 364 have
\* replaced the replay state and the server reference.
StartServerKeepsCursor(bound) ==
    /\ Idle(Owner)
    /\ exchange = NoExchange
    /\ calls.start < MaxStarts
    /\ responses' = IF trajectory # None THEN trajectory.llm_responses ELSE <<>>
    /\ current_index' = Min(current_index, IF trajectory # None THEN Len(trajectory.llm_responses) ELSE 0)
    /\ lock' = NoThread
    /\ replay_state' = StateObject(calls.start + 1)
    /\ listeners' = Append(listeners, [running |-> bound, stops |-> 0])
    /\ server' = ServerObject(Len(listeners) + 1)
    /\ calls' = [calls EXCEPT !.start = @ + 1,
                              !.get_llm_responses =
                                  IF trajectory # None THEN @ + 1 ELSE @]
    /\ nGets' = 0
    /\ ticket' = [t \in Threads |-> 0]
    /\ peeked' = [t \in Threads |-> NoPeek]
    /\ UNCHANGED <<pc, response, req, exchange, trajectory, cliVars>>
StartServer(bound) ==
    /\ Idle(Owner)
    /\ exchange = NoExchange
    /\ calls.start < MaxStarts
    /\ responses' = IF trajectory # None THEN trajectory.llm_responses ELSE <<>>
    /\ current_index' = 0
    /\ lock' = NoThread
    /\ replay_state' = StateObject(calls.start + 1)
    /\ listeners' = Append(listeners, [running |-> bound, stops |-> 0])
    /\ server' = ServerObject(Len(listeners) + 1)
    /\ calls' = [calls EXCEPT !.start = @ + 1,
                              !.get_llm_responses =
                                  IF trajectory # None THEN @ + 1 ELSE @]
    /\ nGets' = 0
    /\ ticket' = [t \in Threads |-> 0]
    /\ peeked' = [t \in Threads |-> NoPeek]
    /\ UNCHANGED <<pc, response, req, exchange, trajectory, cliVars>>

\* start() returns the base URL
Start == StartServer(TRUE) /\ UNCHANGED scope

\* start() ends with the exception of line 367
StartBindFails == StartServer(FALSE) /\ UNCHANGED scope

\* stop(), lines 372-378
StopKeepsReference ==
    /\ Idle(Owner)
    /\ exchange = NoExchange
    /\ calls' = [calls EXCEPT !.stop = @ + 1]
    /\ IF server # None
         THEN listeners' =
                  [listeners EXCEPT ![server.httpserver] =
                      IF @.running
                        THEN [running |-> FALSE, stops |-> @.stops + 1]
                        ELSE @]
         ELSE UNCHANGED listeners
    /\ UNCHANGED <<server, replayVars, routerVars, peeked, trajectory, cliVars, replay_state>>
StopServer ==
    /\ Idle(Owner)
    /\ exchange = NoExchange
    /\ calls' = [calls EXCEPT !.stop = @ + 1]
    /\ IF server # None
         THEN /\ listeners' =
                    [listeners EXCEPT ![server.httpserver] =
                        IF @.running
                          THEN [running |-> FALSE, stops |-> @.stops + 1]
                          ELSE @]
              /\ server' = None
         ELSE UNCHANGED <<listeners, server>>
    /\ UNCHANGED <<replayVars, routerVars, peeked, trajectory, cliVars, replay_state>>

Stop == StopsLeft /\ StopServer /\ UNCHANGED scope

\* reset(), lines 380-383: the call of self._replay_state.reset(), or nothing
\* but the return of None
ServerResetUnguarded ==
    /\ Idle(Owner)
    /\ exchange = NoExchange
    /\ IF replay_state # None
         THEN CallReset(Owner)
         ELSE /\ pc' = [pc EXCEPT ![Owner] = "reset_done"]
              /\ response' = [response EXCEPT ![Owner] = Raised("AttributeError")]
              /\ UNCHANGED <<responses, current_index, lock, ticket, nGets,
                             routerVars, peeked, serverVars, cliVars>>
ServerReset ==
    /\ Idle(Owner)
    /\ exchange = NoExchange
    /\ IF replay_state # None
         THEN CallReset(Owner)
         ELSE /\ pc' = [pc EXCEPT ![Owner] = "reset_done"]
              /\ response' = [response EXCEPT ![Owner] = None]
              /\ UNCHANGED <<responses, current_index, lock, ticket, nGets,
                             routerVars, peeked, serverVars, cliVars>>

\* server.replay_state.get_next_response(), lines 397-400 and 54
ReplayStateGet ==
    /\ replay_state # None
    /\ CallGet(Owner)

\* The owner makes the calls in any order.
NextServer ==
    \/ Start
    \/ StartBindFails
    \/ Stop
    \/ ServerReset
    \/ ReplayStateGet
    \/ GetStep(Owner)
    \/ ResetStep(Owner)

SpecServer == InitServer /\ [][NextServer]_vars

\* ------------------------------------------- with MockLLMServer(...) as s
InBlock == scope \in {"in", "raised"}

\* __enter__, lines 385-387: start() returns and the block is entered
Enter ==
    /\ ~InBlock
    /\ calls.stop < MaxStops
    /\ StartServer(TRUE)
    /\ scope' = "in"

\* __enter__: start() raises, the block is not entered (and __exit__ not called)
EnterBindFails ==
    /\ ~InBlock
    /\ StartServer(FALSE)
    /\ UNCHANGED scope

\* The body of the block raises: the with statement calls __exit__ with the
\* exception, and lets it pass when __exit__ returns None.
BodyRaises ==
    /\ scope = "in"
    /\ Idle(Owner)
    /\ exchange = NoExchange
    /\ scope' = "raised"
    /\ UNCHANGED <<replayVars, routerVars, peeked, trajectory, cliVars, server,
                   replay_state, listeners, calls>>

\* __exit__, lines 389-390: called when the body is left, normally or by an
\* exception
ExitUnlessRaised ==
    /\ InBlock
    /\ IF scope = "in"
         THEN StopServer
         ELSE /\ Idle(Owner)
              /\ exchange = NoExchange
              /\ UNCHANGED <<replayVars, routerVars, peeked, trajectory, cliVars, server,
                             replay_state, listeners, calls>>
    /\ scope' = IF scope = "in" THEN "left" ELSE "left_raised"
Exit ==
    /\ InBlock
    /\ StopServer
    /\ scope' = IF scope = "in" THEN "left" ELSE "left_raised"

\* A server used through the with statement only: the body calls stop(),
\* reset() and the replay state, or raises.
NextScoped ==
    \/ Enter
    \/ EnterBindFails
    \/ scope = "in" /\ Stop
    \/ scope = "in" /\ ServerReset
    \/ scope = "in" /\ ReplayStateGet
    \/ GetStep(Owner)
    \/ ResetStep(Owner)
    \/ BodyRaises
    \/ Exit

SpecScoped == InitServer /\ [][NextScoped]_vars

\* ------------------------------------ MockLLMServer() with no trajectory
\* __init__ with trajectory=None (the default, line 334)
InitNoTrajectory ==
    /\ InitServer
    /\ trajectory = None

\* A server made without a trajectory is started and stopped, and while it
\* listens its worker threads run the handler on the requests that come in.
\* start() is called when no request is being handled.
NextNoTrajectory ==
    \/ (\A t \in Workers : pc[t] = "idle") /\ Start
    \/ Stop
    \/ IsRunning /\ \E t \in Workers : Handle(t)
    \/ \E t \in Workers :
          \/ GnrLock(t) \/ GnrCheck(t) \/ GnrUnlock(t)
          \/ ResetStep(t)
          \/ ReturnChat(t)
          \/ ReturnReset(t)
    \/ Send

SpecNoTrajectory == InitNoTrajectory /\ [][NextNoTrajectory]_vars

\* ------------------------------------- MockLLMServer(trajectory) restarted
InitRestart ==
    /\ InitServer
    /\ trajectory # None

\* A server with a trajectory is started, stopped and started again, and
\* while it listens it serves requests, one at a time.
NextRestart ==
    \/ pc[Owner] = "idle" /\ Start
    \/ pc[Owner] = "idle" /\ StartBindFails
    \/ Stop
    \/ IsRunning /\ Handle(Owner)
    \/ GetStep(Owner)
    \/ ResetStep(Owner)
    \/ ReturnChat(Owner)
    \/ ReturnReset(Owner)
    \/ Send

SpecRestart == InitRestart /\ [][NextRestart]_vars

\* --------------------------------- openhands_cli/mcp/mcp_commands.py
\* args.mcp_command as argparse leaves it: one of the four subcommands,
\* another word, or None when none was given; args.name as typed.
McpCommands == {Str("add"), Str("remove"), Str("list"), Str("get"),
                Str("enable"), None}
Names == {"fs", "web", "a&b"}
ArgsPool == [mcp_command : McpCommands, name : Names]

\* The messages an MCPConfigurationError of add_server, remove_server,
\* list_servers or get_server may carry.
ErrorTexts == {"config file is not valid JSON", "server 'fs' already exists",
               "server 'a&b' not found"}

\* What list_servers() and get_server() return: servers by name.
StdioServer == [kind |-> "stdio", transport |-> "stdio", target |-> "npx"]
RemoteServer == [kind |-> "remote", transport |-> "http",
                 target |-> "https://h/mcp?a=1&b=2"]
ServerLists == { <<>>,
                 << [name |-> "fs", server |-> StdioServer] >>,
                 << [name |-> "fs", server |-> StdioServer],
                    [name |-> "web", server |-> RemoteServer] >> }

\* HTML(f"{before}{text}{after}"), prompt_toolkit: the constructor parses
\* the whole string as XML (xml.dom.minidom.parseString) and raises
\* ExpatError when it is not well formed. before and after are the literal
\* parts of the f-string and balance each other, so the string parses when
\* the interpolated text holds no bare & or <.
WellFormed(text) ==
    text \notin {"a&b", "server 'a&b' not found", "https://h/mcp?a=1&b=2"}
Html(before, text, after) == [before |-> before, text |-> text, after |-> after]

\* print_formatted_text(HTML(...)) for each of `items` in turn: the lines
\* that get printed before the first HTML(...) that raises
RECURSIVE Printable(_)
Printable(items) ==
    IF items = <<>> \/ ~WellFormed(Head(items).text) THEN <<>>
    ELSE << Head(items).before \o Head(items).text \o Head(items).after >>
         \o Printable(Tail(items))
AllWellFormed(items) == \A i \in 1..Len(items) : WellFormed(items[i].text)

\* The statements at label `at` print `items`; then control is at `next`,
\* unless an HTML(...) raised, which no except clause of the module catches.
PrintStep(at, items, next) ==
    /\ cli.pc = at
    /\ printed' = printed \o Printable(items)
    /\ cli' = IF AllWellFormed(items)
                THEN [cli EXCEPT !.pc = next]
                ELSE [cli EXCEPT !.pc = "raised", !.raised = "ExpatError"]
    /\ UNCHANGED <<args, replayVars, routerVars, peeked, serverVars>>

\* The underlying operation of a handler returns, or raises
\* MCPConfigurationError, which the handler's except clause catches.
Returns_(at, next) ==
    /\ cli.pc = at
    /\ cli' = [cli EXCEPT !.pc = next]
    /\ UNCHANGED <<args, printed, replayVars, routerVars, peeked, serverVars>>
RaisesConfigurationError(at, next) ==
    /\ cli.pc = at
    /\ \E text \in ErrorTexts : cli' = [cli EXCEPT !.pc = next, !.e = Str(text)]
    /\ UNCHANGED <<args, printed, replayVars, routerVars, peeked, serverVars>>

\* except MCPConfigurationError as e: print the error (lines 42, 61, 94, 112)
ErrorLine(e) == Html("<red>Error: ", e.str, "</red>")
\* raise SystemExit(1) (lines 43, 62, 95, 113, 178)
RaiseSystemExit(at) ==
    /\ cli.pc = at
    /\ cli' = [cli EXCEPT !.pc = "raised", !.raised = "SystemExit(1)"]
    /\ UNCHANGED <<args, printed, replayVars, routerVars, peeked, serverVars>>

\* _render_server_details, lines 126-159, for a server without auth,
\* headers, args or env
render_server_details(name, srv, show_name) ==
    (IF show_name THEN << Html("  <cyan>* ", name, "</cyan>") >> ELSE <<>>)
    \o << Html("    <grey>Transport:</grey> ", srv.transport, "") >>
    \o << Html(IF srv.kind = "remote" THEN "    <grey>URL:</grey> "
                                         ELSE "    <grey>Command:</grey> ",
               srv.target, "") >>

\* handle_mcp_add, lines 28-43
AddedLine == Html("<green>Successfully added MCP server '", args.name, "'</green>")
handle_mcp_add ==
    \/ Returns_("add_server", "add_success")
    \/ PrintStep("add_success", << AddedLine >>, "returned")
    \/ RaisesConfigurationError("add_server", "add_except")
    \/ PrintStep("add_except", << ErrorLine(cli.e) >>, "add_exit")
    \/ RaiseSystemExit("add_exit")

\* handle_mcp_remove, lines 52-62
RemovedLines ==
    << Html("<green>Successfully removed MCP server '", args.name, "'</green>"),
       Html("<yellow>Restart your OpenHands session to apply the changes</yellow>",
            "", "") >>
handle_mcp_remove ==
    \/ Returns_("remove_server", "remove_success")
    \/ PrintStep("remove_success", RemovedLines, "returned")
    \/ RaisesConfigurationError("remove_server", "remove_except")
    \/ PrintStep("remove_except", << ErrorLine(cli.e) >>, "remove_exit")
    \/ RaiseSystemExit("remove_exit")

\* handle_mcp_list, lines 71-95: the lines printed for the servers found
Count(n) == CASE n = 1 -> "1" [] n = 2 -> "2" [] OTHER -> "many"
RECURSIVE ListedDetails(_)
ListedDetails(servers) ==
    IF servers = <<>> THEN <<>>
    ELSE render_server_details(Head(servers).name, Head(servers).server, TRUE)
         \o << Html("", "", "") >>
         \o ListedDetails(Tail(servers))
ListedLines(servers) ==
    IF servers = <<>>
      THEN << Html("<yellow>No MCP servers configured</yellow>", "", ""),
              Html("Use <cyan>openhands mcp add</cyan> to add a server, "
                   \o "or create <cyan>~/.openhands/mcp.json</cyan> manually",
                   "", "") >>
      ELSE << Html("<white>Configured MCP servers (", Count(Len(servers)),
                   "):</white>"),
              Html("", "", "") >>
           \o ListedDetails(servers)
handle_mcp_list ==
    \/ \E servers \in ServerLists :
          PrintStep("list_servers", ListedLines(servers), "returned")
    \/ RaisesConfigurationError("list_servers", "list_except")
    \/ PrintStep("list_except", << ErrorLine(cli.e) >>, "list_exit")
    \/ RaiseSystemExit("list_exit")

\* handle_mcp_get, lines 104-113
GotLines(srv) ==
    << Html("<white>MCP server '", args.name, "':</white>"), Html("", "", "") >>
    \o render_server_details(args.name, srv, FALSE)
handle_mcp_get ==
    \/ \E srv \in {StdioServer, RemoteServer} :
          PrintStep("get_server", GotLines(srv), "returned")
    \/ RaisesConfigurationError("get_server", "get_except")
    \/ PrintStep("get_except", << ErrorLine(cli.e) >>, "get_exit")
    \/ RaiseSystemExit("get_exit")

\* handle_mcp_command, lines 168-178: the chain of tests on args.mcp_command
Enter_(handler, first) ==
    /\ cli.pc = "called"
    /\ cli' = [cli EXCEPT !.pc = first, !.ran = Append(@, handler)]
    /\ UNCHANGED <<args, printed, replayVars, routerVars, peeked, serverVars>>
handle_mcp_command ==
    \/ args.mcp_command = Str("add") /\ Enter_("handle_mcp_add", "add_server")
    \/ args.mcp_command = Str("remove") /\ Enter_("handle_mcp_remove", "remove_server")
    \/ args.mcp_command = Str("list") /\ Enter_("handle_mcp_list", "list_servers")
    \/ args.mcp_command = Str("get") /\ Enter_("handle_mcp_get", "get_server")
    \/ /\ args.mcp_command \notin {Str("add"), Str("remove"), Str("list"), Str("get")}
       /\ PrintStep("called", << Html("<red>Unknown MCP command</red>", "", "") >>,
                    "unknown_exit")
    \/ RaiseSystemExit("unknown_exit")

\* One call of handle_mcp_command(args).
InitMcp ==
    /\ args \in ArgsPool
    /\ cli = [pc |-> "called", e |-> None, raised |-> "", ran |-> <<>>]
    /\ printed = <<>>
    /\ responses = <<>>
    /\ current_index = 0
    /\ lock = NoThread
    /\ pc = [t \in Threads |-> "idle"]
    /\ response = [t \in Threads |-> None]
    /\ ticket = [t \in Threads |-> 0]
    /\ nGets = 0
    /\ req = [t \in Threads |-> NoRequest]
    /\ exchange = NoExchange
    /\ peeked = [t \in Threads |-> NoPeek]
    /\ trajectory = None
    /\ server = None
    /\ replay_state = None
    /\ listeners = <<>>
    /\ scope = "out"
    /\ calls = NoCalls

NextMcp ==
    \/ handle_mcp_command
    \/ handle_mcp_add
    \/ handle_mcp_remove
    \/ handle_mcp_list
    \/ handle_mcp_get

SpecMcp == InitMcp /\ [][NextMcp]_vars

\* ================================================== claims: replay state
\* The events the finished calls returned.
Returned == { response[t] : t \in Threads }

\* C1: when M threads each call get_next_response() once, concurrently, on a
\* state of M events, then once all have returned, every call returned an
\* event, no two calls returned the same one, and every position 0..M-1 was
\* returned.
C1_DistinctCover ==
    (Len(responses) = NThreads /\ \A t \in Threads : pc[t] = "gnr_done")
        => /\ None \notin Returned
           /\ \A t, u \in Threads : t # u => response[t] # response[u]
           /\ Returned = { responses[i] : i \in 1..Len(responses) }

C1_Witness ==
    /\ Len(responses) = NThreads
    /\ NThreads >= 2
    /\ \A t \in Threads : pc[t] = "gnr_done"

\* C2: with M events, the i-th get_next_response() call (counted from the
\* start or the last reset, in the order the calls run) returns events[i-1]
\* for i <= M, and the (M+1)-th and every later call return None.
C2_SequentialOrder ==
    \A t \in Threads :
        (pc[t] = "gnr_done" /\ ticket[t] >= 1)
            => response[t] = IF ticket[t] <= Len(responses)
                               THEN responses[ticket[t]]
                               ELSE None

C2_Witness ==
    \E t, u \in Threads :
        /\ Len(responses) >= 2
        /\ pc[t] = "gnr_done" /\ ticket[t] = Len(responses) + 1 /\ response[t] = None
        /\ pc[u] = "gnr_done" /\ ticket[u] = Len(responses)
        /\ response[u] = responses[Len(responses)]

\* C3: in every reachable state, under any interleaving of get_next_response,
\* peek_next_response and reset, 0 <= current_index <= len(responses).
C3_CursorInRange ==
    /\ 0 <= current_index
    /\ current_index <= Len(responses)

C3_Witness ==
    /\ Len(responses) >= 2
    /\ current_index = Len(responses)
    /\ \E t, u \in Threads : pc[t] = "gnr_lock" /\ pc[u] = "gnr_unlock" /\ response[u] # None

\* A get_next_response() call that holds the lock and returns None.
OnEmptyPath(t) ==
    \/ pc[t] = "gnr_check" /\ Exhausted
    \/ pc[t] = "gnr_unlock" /\ response[t] = None

\* C4: every step leaves the cursor unchanged, or increases it by exactly 1
\* (the step of a get_next_response() that returns an event), or sets it to
\* 0 (the step of a reset()); while a get_next_response() that returns None
\* runs, the cursor does not change.
C4_CursorSteps ==
    [][ /\ \/ current_index' = current_index
           \/ /\ current_index' = current_index + 1
              /\ \E t \in Threads :
                    /\ pc[t] = "gnr_incr" /\ pc'[t] = "gnr_unlock"
                    /\ response'[t] \notin {None, IndexError}
           \/ /\ current_index' = 0
              /\ \E t \in Threads : pc[t] = "reset_assign" /\ pc'[t] = "reset_unlock"
        /\ (\E t \in Threads : OnEmptyPath(t)) => current_index' = current_index
      ]_vars

C4_Witness ==
    \E t, u \in Threads :
        /\ Len(responses) >= 2
        /\ current_index = Len(responses)
        /\ pc[t] = "gnr_unlock" /\ response[t] = None
        /\ pc[u] = "reset_lock"

\* ===================================================== claims: the router
\* A handler call returns in this step: exchange' is its request and response.
Returns == exchange = NoExchange /\ exchange' # NoExchange

IsChatPost(r) ==
    r.method = "POST" /\ r.path \in {"/chat/completions", "/v1/chat/completions"}

\* The bodies that are no JSON text, and those that are a JSON object.
NotJsonBodies == {"\\xff", "{\"stream\": tru"}
ObjectBodies == {"{}", "{\"stream\": true}", "{\"stream\": false}"}

WantsStream(r) == r.data = "{\"stream\": true}"

InvalidJson400 ==
    Response(400, "application/json", EmptyDict, JsonDumps([error |-> "Invalid JSON"]))
NotFound404 ==
    Response(404, "application/json", EmptyDict, JsonDumps([error |-> "Not found"]))

\* C5: a POST to /chat/completions or /v1/chat/completions whose body does
\* not parse as JSON is answered 400 {"error": "Invalid JSON"}, and handling
\* it leaves the cursor as it was.
C5_InvalidJson400 ==
    [][ (Returns /\ IsChatPost(exchange'.req)
                 /\ exchange'.req.data \in NotJsonBodies)
            => /\ exchange'.resp = InvalidJson400
               /\ current_index' = current_index
      ]_vars

\* C6: every request, whatever its method, path and body, is answered with one
\* of the handler's responses (200, 400 Invalid JSON, 404 Not found): no
\* handler call ends with an exception, and a request that is answered 400 or
\* 404 leaves the cursor as it was.
C6_DefinedResponses ==
    [][ Returns
            => /\ exchange'.resp.raised = ""
               /\ exchange'.resp.status \in {200, 400, 404}
               /\ exchange'.resp.status = 400 => exchange'.resp = InvalidJson400
               /\ exchange'.resp.status = 404 => exchange'.resp = NotFound404
               /\ exchange'.resp.status # 200 => current_index' = current_index
      ]_vars

\* The text a response carries, and its finish reason: of a completion, the
\* message content and finish_reason of its choice; of an SSE body, the
\* delta contents of its chunks in order and the last chunk's finish_reason.
Chunks(resp) ==
    [i \in 1..(Len(resp.body.text) - 1) |-> resp.body.text[i].payload.json]

RECURSIVE DeltaText(_)
DeltaText(chunks) ==
    IF chunks = <<>> THEN ""
    ELSE LET delta == Head(chunks).choices[1].delta
         IN  (IF "content" \in DOMAIN delta /\ IsStr(delta.content)
                THEN delta.content.str ELSE "")
             \o DeltaText(Tail(chunks))

IsSse(resp) == resp.content_type = "text/event-stream"

TextOf(resp) ==
    IF IsSse(resp)
      THEN Str(DeltaText(Chunks(resp)))
      ELSE resp.body.json.choices[1].message.content

FinishOf(resp) ==
    IF IsSse(resp)
      THEN Chunks(resp)[Len(Chunks(resp))].choices[1].finish_reason
      ELSE resp.body.json.choices[1].finish_reason

\* C7: a well-formed chat request (stream or not) that draws when the cursor
\* equals len(events) is answered 200 with the text "Task completed." and
\* finish_reason "stop", and its draw leaves the cursor at len(events).
C7_ExhaustedDefault ==
    [][ /\ \A t \in Workers :
              (pc[t] = "gnr_check" /\ pc'[t] # "gnr_check"
                                   /\ current_index = Len(responses))
                  => /\ pc'[t] = "gnr_unlock"
                     /\ response'[t] = None
                     /\ current_index' = Len(responses)
        /\ \A t \in Workers :
              (pc[t] = "gnr_done" /\ pc'[t] = "idle" /\ response[t] = None)
                  => /\ exchange'.req = req[t]
                     /\ exchange'.resp.raised = ""
                     /\ exchange'.resp.status = 200
                     /\ IsSse(exchange'.resp) = WantsStream(req[t])
                     /\ TextOf(exchange'.resp) = Str("Task completed.")
                     /\ FinishOf(exchange'.resp) = Str("stop")
                     /\ current_index' = current_index
      ]_vars

C7_Witness ==
    /\ exchange # NoExchange
    /\ IsChatPost(exchange.req) /\ WantsStream(exchange.req)
    /\ Len(responses) >= 1
    /\ exchange.ticket = Len(responses) + 1
    /\ exchange.drawn = None
    /\ exchange.resp.status = 200
    /\ current_index = Len(responses)

\* C8: the k-th well-formed chat POST to take the draw after the start or
\* the last reset (k <= len(events)) is answered with the conversion of
\* events[k-1], as SSE when stream is true and as JSON otherwise, and its
\* draw leaves the cursor at k: each of them advances it by exactly 1, and
\* health, 404 and 400 requests in between shift nothing.
C8_KthChatGetsKthEvent ==
    /\ \A t \in Workers :
          (pc[t] = "gnr_unlock" /\ ticket[t] \in 1..Len(responses))
              => current_index = ticket[t]
    /\ (exchange # NoExchange /\ IsChatPost(exchange.req)
           /\ exchange.req.data \in ObjectBodies
           /\ exchange.ticket \in 1..Len(responses))
          => \E rnd \in Entropy :
                exchange.resp =
                    ChatResponse(convert_event(responses[exchange.ticket], rnd),
                                 WantsStream(exchange.req))

C8_Witness ==
    /\ Len(responses) >= 3
    /\ exchange # NoExchange
    /\ IsChatPost(exchange.req) /\ WantsStream(exchange.req)
    /\ exchange.ticket = 2
    /\ exchange.drawn = responses[2]
    /\ exchange.resp.status = 200
    /\ \E t \in Workers : pc[t] = "gnr_unlock" /\ ticket[t] = 3

IsHealthGet(r) == r.method = "GET" /\ r.path \in {"/health", "/"}

\* No chat or reset request is being handled.
Quiescent == \A t \in Workers : pc[t] = "idle"

\* C9: GET /health (or GET /) is answered 200 with responses_remaining
\* len(events) - cursor, a value in 0..len(events), and leaves the cursor as
\* it was; when no other request is being handled and k well-formed chat
\* requests were served since the start (or the last reset), the value is
\* max(M - k, 0): M on a fresh state.
C9_HealthRemaining ==
    [][ (Returns /\ IsHealthGet(exchange'.req))
            => /\ exchange'.resp =
                     Response(200, "application/json", EmptyDict,
                              JsonDumps([status |-> "ok",
                                         server |-> "mock-llm-trajectory",
                                         responses_remaining |->
                                             Len(responses) - current_index]))
               /\ current_index' = current_index
               /\ exchange'.resp.body.json.responses_remaining \in 0..Len(responses)
               /\ Quiescent =>
                     exchange'.resp.body.json.responses_remaining =
                         IF nGets <= Len(responses)
                           THEN Len(responses) - nGets ELSE 0
      ]_vars

C9_Witness ==
    /\ exchange # NoExchange
    /\ IsHealthGet(exchange.req)
    /\ Len(responses) = 3
    /\ nGets = 1
    /\ Quiescent
    /\ exchange.resp.body.json.responses_remaining = 2

KnownEndpoint(r) ==
    \/ r.method = "GET" /\ r.path \in {"/health", "/", "/reset"}
    \/ r.method = "POST" /\ r.path \in {"/chat/completions", "/v1/chat/completions"}

\* C10: a request whose (method, path) is none of GET /health, GET /,
\* GET /reset, POST /chat/completions, POST /v1/chat/completions is answered
\* 404 {"error": "Not found"} and leaves the cursor as it was (POST /reset
\* does not reset it, GET /chat/completions draws nothing).
C10_NotFound ==
    [][ (Returns /\ ~KnownEndpoint(exchange'.req))
            => /\ exchange'.resp = NotFound404
               /\ current_index' = current_index
               /\ \A t \in Workers : pc'[t] = pc[t]
      ]_vars

C10_Witness ==
    /\ exchange # NoExchange
    /\ exchange.req = [method |-> "POST", path |-> "/reset", data |-> "{}"]
    /\ exchange.resp.status = 404
    /\ current_index >= 1

\* ============================================== claims: peek and reset
\* The event at the cursor; None when the list is used up.
AtCursor ==
    IF current_index >= Len(responses) THEN None ELSE responses[current_index + 1]

InPeek(t) == pc[t] \in {"peek_lock", "peek_check", "peek_unlock"}

\* C11: no step of peek_next_response() changes the cursor, and the call
\* returns the event at the cursor (None when the cursor is at len(events));
\* when a thread's peek_next_response() is followed by its
\* get_next_response() and no call moved the cursor in between, the get
\* returns what the peek returned, and when that is an event the cursor ends
\* exactly 1 above where the peek saw it (when it is None the cursor stays).
C11_PeekThenGet ==
    [][ \A t \in Threads :
          /\ (InPeek(t) /\ pc'[t] # pc[t]) => current_index' = current_index
          /\ (pc[t] = "peek_unlock" /\ pc'[t] = "peek_done")
                => response[t] = AtCursor
          /\ (pc[t] = "gnr_unlock" /\ pc'[t] = "gnr_done" /\ peeked[t] # NoPeek)
                => /\ response[t] = peeked[t].event
                   /\ current_index =
                         peeked[t].at + (IF peeked[t].event = None THEN 0 ELSE 1)
      ]_vars

C11_Witness ==
    \E t \in Threads :
        /\ pc[t] = "gnr_done"
        /\ peeked[t] # NoPeek
        /\ peeked[t].at >= 1
        /\ peeked[t].at < Len(responses)
        /\ peeked[t].event = responses[peeked[t].at + 1]
        /\ response[t] = peeked[t].event
        /\ current_index = peeked[t].at + 1

IsResetGet(r) == r.method = "GET" /\ r.path = "/reset"

\* C12: the assignment of reset() sets the cursor to 0 from any position, so
\* that the first get_next_response() after it, on a non-empty list, returns
\* events[0]; GET /reset runs the same reset() and is answered 200
\* {"status": "reset"}, and a GET /health that comes when no draw was taken
\* since the reset and no request is in flight reports len(events).
C12_ResetRestarts ==
    [][ /\ \A t \in Workers :
              /\ (pc[t] = "reset_assign" /\ pc'[t] = "reset_unlock")
                    => current_index' = 0
              /\ (pc[t] = "gnr_unlock" /\ pc'[t] = "gnr_done"
                     /\ ticket[t] = 1 /\ Len(responses) > 0)
                    => response[t] = responses[1]
        /\ (Returns /\ IsResetGet(exchange'.req))
              => exchange'.resp = Response(200, "application/json", EmptyDict,
                                           JsonDumps([status |-> "reset"]))
        /\ (Returns /\ IsHealthGet(exchange'.req) /\ nGets = 0 /\ Quiescent)
              => exchange'.resp.body.json.responses_remaining = Len(responses)
      ]_vars

\* GET /reset has been answered while a chat request that drew the second
\* event before the reset has not returned yet.
C12_Witness ==
    /\ exchange # NoExchange
    /\ IsResetGet(exchange.req)
    /\ exchange.resp.status = 200
    /\ current_index = 0
    /\ nGets = 0
    /\ \E t \in Workers : pc[t] = "gnr_done" /\ ticket[t] = 2

\* ================================================ claims: the converter
\* The handler call that has just returned served a well-formed chat request.
ChatAnswered ==
    /\ exchange # NoExchange
    /\ IsChatPost(exchange.req)
    /\ exchange.req.data \in ObjectBodies
    /\ exchange.resp.raised = ""

DoneFrame == [prefix |-> "data: ", payload |-> [raw |-> "[DONE]"], suffix |-> "\n\n"]

\* The frame "data: <json of chunk>\n\n".
DataFrame(chunk) ==
    [prefix |-> "data: ", payload |-> JsonDumps(chunk), suffix |-> "\n\n"]

\* C13: a well-formed chat request with stream true is answered with the
\* stream chunks of the envelope, in order, one frame "data: <json>\n\n"
\* each, then the frame "data: [DONE]\n\n", which is the last frame and the
\* only one of its kind: 3 chunk frames and the terminal frame, whatever the
\* event drawn (tool call, message, default). With stream false or absent
\* the body is the unary completion as one JSON text, with no frame in it.
C13_SseFraming ==
    ChatAnswered =>
        IF WantsStream(exchange.req)
          THEN /\ exchange.resp.content_type = "text/event-stream"
               /\ "text" \in DOMAIN exchange.resp.body
               /\ Len(exchange.resp.body.text) = 4
               /\ exchange.resp.body.text[4] = DoneFrame
               /\ \A i \in 1..3 : exchange.resp.body.text[i] # DoneFrame
               /\ \E rnd \in Entropy :
                     /\ Len(ChatEnvelope(exchange.drawn, rnd).stream_chunks) = 3
                     /\ \A i \in 1..3 :
                           exchange.resp.body.text[i] =
                               DataFrame(ChatEnvelope(exchange.drawn, rnd).stream_chunks[i])
          ELSE /\ exchange.resp.content_type = "application/json"
               /\ "text" \notin DOMAIN exchange.resp.body
               /\ \E rnd \in Entropy :
                     exchange.resp.body =
                         JsonDumps(ChatEnvelope(exchange.drawn, rnd).completion)

C13_Witness ==
    /\ ChatAnswered
    /\ WantsStream(exchange.req)
    /\ exchange.drawn # None
    /\ exchange.drawn.kind = "ActionEvent"
    /\ Truthy(exchange.drawn.tool_call)
    /\ Len(exchange.resp.body.text) = 4
    /\ exchange.resp.body.text[4] = DoneFrame

\* The event is converted by _create_message_response and its content is a str.
IsTextMessage(event) ==
    /\ event # None
    /\ event.kind = "MessageEvent"
    /\ ~(event.kind = "ActionEvent" /\ Truthy(event.tool_call))
    /\ Truthy(event.llm_message)
    /\ "content" \in DOMAIN event.llm_message
    /\ IsStr(event.llm_message.content)

ChunkDelta(resp, i) == Chunks(resp)[i].choices[1].delta
ChunkFinish(resp, i) == Chunks(resp)[i].choices[1].finish_reason

\* C14: a MessageEvent whose llm_message content is the string s is answered,
\* without stream, by a completion with choices[0].message.content = s and
\* finish_reason "stop"; with stream, by exactly 3 chunks: delta
\* {role: "assistant", content: ""}, then delta {content: s}, then delta {}
\* with finish_reason "stop"; the first two have finish_reason null.
C14_TextMessage ==
    (ChatAnswered /\ IsTextMessage(exchange.drawn)) =>
        LET s == exchange.drawn.llm_message.content
            resp == exchange.resp
        IN  IF WantsStream(exchange.req)
              THEN /\ Len(resp.body.text) = 4
                   /\ ChunkDelta(resp, 1) = [role |-> "assistant", content |-> Str("")]
                   /\ ChunkDelta(resp, 2) = [content |-> s]
                   /\ ChunkDelta(resp, 3) = EmptyDict
                   /\ ChunkFinish(resp, 1) = None
                   /\ ChunkFinish(resp, 2) = None
                   /\ ChunkFinish(resp, 3) = Str("stop")
              ELSE /\ Len(resp.body.json.choices) = 1
                   /\ resp.body.json.choices[1].message.content = s
                   /\ resp.body.json.choices[1].finish_reason = Str("stop")

C14_Witness ==
    /\ ChatAnswered
    /\ IsTextMessage(exchange.drawn)
    /\ exchange.drawn.llm_message.content = Str("hello")
    /\ WantsStream(exchange.req)
    /\ ChunkDelta(exchange.resp, 2) = [content |-> Str("hello")]

\* The event is converted by _create_tool_call_response.
IsToolCall(event) ==
    /\ event # None
    /\ event.kind = "ActionEvent"
    /\ Truthy(event.tool_call)

\* The id, name and arguments a tool-call event stands for: those of its
\* tool_call, and where it has none, a fresh "call_<hex>" id, the event's
\* tool_name (or "unknown"), and "{}".
ToolCallIds(event) ==
    IF "id" \in DOMAIN event.tool_call
      THEN {event.tool_call.id}
      ELSE {"call_" \o hex : hex \in HexPool}
ToolCallName(event) ==
    IF "name" \in DOMAIN event.tool_call THEN event.tool_call.name
    ELSE IF event.tool_name \notin {None, Str("")} THEN event.tool_name.str
    ELSE "unknown"
ToolCallArguments(event) ==
    IF "arguments" \in DOMAIN event.tool_call
      THEN event.tool_call.arguments ELSE "{}"

\* C15: a tool-call event is streamed as exactly 3 chunks: the delta of the
\* 1st has role "assistant", content null and one tool call with index 0,
\* the tool-call id, type "function", the tool name and empty arguments; the
\* delta of the 2nd has only tool_calls, with index 0 and the whole arguments
\* string and nothing else; the delta of the 3rd is empty and its
\* finish_reason is "tool_calls".
C15_ToolCallChunks ==
    (ChatAnswered /\ IsToolCall(exchange.drawn) /\ WantsStream(exchange.req)) =>
        LET event == exchange.drawn
            resp == exchange.resp
        IN  /\ Len(resp.body.text) = 4
            /\ \E id \in ToolCallIds(event) :
                  ChunkDelta(resp, 1) =
                      [role |-> "assistant",
                       content |-> None,
                       tool_calls |-> << [index |-> 0,
                                          id |-> id,
                                          type |-> "function",
                                          function |-> [name |-> ToolCallName(event),
                                                        arguments |-> ""]] >>]
            /\ DOMAIN ChunkDelta(resp, 2) = {"tool_calls"}
            /\ ChunkDelta(resp, 2).tool_calls =
                  << [index |-> 0,
                      function |-> [arguments |-> ToolCallArguments(event)]] >>
            /\ ChunkDelta(resp, 3) = EmptyDict
            /\ "tool_calls" \notin DOMAIN ChunkDelta(resp, 3)
            /\ ChunkFinish(resp, 1) = None
            /\ ChunkFinish(resp, 2) = None
            /\ ChunkFinish(resp, 3) = Str("tool_calls")

C15_Witness ==
    /\ ChatAnswered
    /\ IsToolCall(exchange.drawn)
    /\ WantsStream(exchange.req)
    /\ "id" \notin DOMAIN exchange.drawn.tool_call
    /\ ChunkDelta(exchange.resp, 1).tool_calls[1].function.name = "terminal"
    /\ ChunkDelta(exchange.resp, 2).tool_calls[1].function.arguments = "{}"

\* The concatenation of the function.arguments fragments of the chunks.
RECURSIVE ArgumentsText(_)
ArgumentsText(chunks) ==
    IF chunks = <<>> THEN ""
    ELSE LET delta == Head(chunks).choices[1].delta
         IN  (IF "tool_calls" \in DOMAIN delta
                THEN delta.tool_calls[1].function.arguments ELSE "")
             \o ArgumentsText(Tail(chunks))

\* The envelopes of the events of the list, and the default envelope.
Envelopes ==
    { ChatEnvelope(event, rnd) :
        event \in {None} \cup { responses[i] : i \in 1..Len(responses) },
        rnd \in Entropy }

\* The two halves of an envelope say the same.
HalvesAgree(envelope) ==
    LET choice == envelope.completion.choices[1]
        message == choice.message
        chunks == envelope.stream_chunks
        first == chunks[1].choices[1].delta
    IN  /\ Len(chunks) >= 1
        /\ chunks[Len(chunks)].choices[1].finish_reason = choice.finish_reason
        /\ IF "tool_calls" \in DOMAIN message
             THEN /\ "tool_calls" \in DOMAIN first
                  /\ first.tool_calls[1].id = message.tool_calls[1].id
                  /\ first.tool_calls[1].function.name =
                        message.tool_calls[1].function.name
                  /\ ArgumentsText(chunks) = message.tool_calls[1].function.arguments
                  /\ first.content = message.content
             ELSE /\ Str(DeltaText(chunks)) = message.content
                  /\ \A i \in 1..Len(chunks) :
                        "tool_calls" \notin DOMAIN chunks[i].choices[1].delta

\* C16: for every event (and for the default response) the completion and
\* the stream chunks of the envelope carry the same content: for a text
\* response the delta.content fragments concatenate to message.content; for
\* a tool-call response the id and name of the first chunk and the
\* concatenated function.arguments fragments are the id, name and arguments
\* of the message's tool call; the finish_reason of the last chunk is the
\* finish_reason of the completion.
C16_HalvesAgree ==
    \A envelope \in Envelopes : HalvesAgree(envelope)

C16_Witness ==
    /\ ChatAnswered
    /\ IsToolCall(exchange.drawn)
    /\ "arguments" \notin DOMAIN exchange.drawn.tool_call
    /\ ~WantsStream(exchange.req)
    /\ exchange.resp.body.json.choices[1].message.tool_calls[1].function.arguments = "{}"
    /\ \E envelope \in Envelopes :
          /\ exchange.resp.body = JsonDumps(envelope.completion)
          /\ ArgumentsText(envelope.stream_chunks) = "{}"

\* What the response says, whichever shape it has: does it carry a tool
\* call, and is its message content null.
HasToolCalls(resp) ==
    IF IsSse(resp)
      THEN "tool_calls" \in DOMAIN ChunkDelta(resp, 1)
      ELSE "tool_calls" \in DOMAIN resp.body.json.choices[1].message

ContentIsNull(resp) ==
    IF IsSse(resp)
      THEN ChunkDelta(resp, 1).content = None
      ELSE resp.body.json.choices[1].message.content = None

\* C17: an event of kind "ActionEvent" with a tool_call is answered with a
\* tool-call envelope (finish_reason "tool_calls", message content null);
\* otherwise an event of kind "MessageEvent" with an llm_message is answered
\* with a text envelope (finish_reason "stop", the text of the message);
\* every other event (another kind, an ActionEvent without tool_call, a
\* MessageEvent without llm_message) is answered with the default envelope,
\* text "Task completed." and finish_reason "stop".
C17_Dispatch ==
    (ChatAnswered /\ exchange.drawn # None) =>
        LET event == exchange.drawn
            resp == exchange.resp
        IN  IF event.kind = "ActionEvent" /\ Truthy(event.tool_call)
              THEN /\ HasToolCalls(resp)
                   /\ ContentIsNull(resp)
                   /\ FinishOf(resp) = Str("tool_calls")
            ELSE IF event.kind = "MessageEvent" /\ Truthy(event.llm_message)
              THEN /\ ~HasToolCalls(resp)
                   /\ TextOf(resp) = Str(extract_content(event.llm_message))
                   /\ FinishOf(resp) = Str("stop")
            ELSE /\ ~HasToolCalls(resp)
                 /\ TextOf(resp) = Str("Task completed.")
                 /\ FinishOf(resp) = Str("stop")

\* A MessageEvent that also has a tool_call was answered with its text.
C17_Witness ==
    /\ ChatAnswered
    /\ exchange.drawn # None
    /\ exchange.drawn.kind = "MessageEvent"
    /\ Truthy(exchange.drawn.tool_call)
    /\ exchange.drawn.llm_message = [role |-> "assistant", content |-> Str("hello")]
    /\ TextOf(exchange.resp) = Str("hello")

\* ================================================= claims: the lifecycle
\* This step is a stop() call.
StopCalled == calls'.stop = calls.stop + 1

\* C18: a stop() call on a server that has no server reference (never
\* started, or stopped already) changes nothing; on a started server it
\* shuts the listener down, touches no other listener and clears the server
\* reference, so that the next stop() call changes nothing: no listener is
\* ever shut down twice.
C18_StopIdempotent ==
    [][ /\ StopCalled =>
              IF server = None
                THEN UNCHANGED <<listeners, server, replay_state, replayVars>>
                ELSE /\ server' = None
                     /\ ~listeners'[server.httpserver].running
                     /\ \A i \in DOMAIN listeners :
                           i # server.httpserver => listeners'[i] = listeners[i]
        /\ \A i \in DOMAIN listeners' : listeners'[i].stops <= 1
      ]_vars

C18_Witness ==
    /\ calls.start = 1
    /\ calls.stop >= 2
    /\ server = None
    /\ Len(listeners) = 1
    /\ listeners[1].stops = 1
    /\ ~listeners[1].running

NoListenerRunning(ls) == \A i \in DOMAIN ls : ~ls[i].running

\* C19: entering the with block is one start() call, after which the server
\* runs; leaving it, by the end of the body or by an exception, is exactly
\* one stop() call (and no start() call), after which the server reference
\* is cleared and no listener runs; and none runs until the block is entered
\* again.
C19_ScopedUse ==
    [][ /\ (~InBlock /\ scope' = "in")
              => /\ calls'.start = calls.start + 1
                 /\ calls'.stop = calls.stop
                 /\ server' # None
                 /\ listeners'[server'.httpserver].running
        /\ (InBlock /\ scope' \in {"left", "left_raised"})
              => /\ calls'.stop = calls.stop + 1
                 /\ calls'.start = calls.start
                 /\ server' = None
        /\ scope' \in {"left", "left_raised"} => NoListenerRunning(listeners')
        /\ scope = "raised" => scope' \in {"raised", "left_raised"}
      ]_vars

\* The body stopped the server itself and then raised; __exit__ has run.
C19_Witness ==
    /\ scope = "left_raised"
    /\ calls.start = 1
    /\ calls.stop = 2
    /\ Len(listeners) = 1
    /\ listeners[1].stops = 1
    /\ server = None

InReset(t) == pc[t] \in {"reset_lock", "reset_assign", "reset_unlock"}

\* C20: the server owns a replay state exactly while it is running: whenever
\* the server reference is clear (before the first start(), and from a
\* stop() to the next start()) replay_state is None, and reset() calls
\* nothing.
C20_StateWhileRunning ==
    server = None => (replay_state = None /\ ~InReset(Owner))

\* C21: on a MockLLMServer that was given a trajectory, whatever start(),
\* stop() and reset() calls were made since it was constructed, the
\* trajectory's get_llm_responses() has been called exactly once.
C21_ResponsesReadOnce ==
    trajectory # None => calls.get_llm_responses = 1

\* C22: MockLLMServer.reset() calls the reset() of the replay state exactly
\* when the server has one, and then the cursor is 0 when it returns; when
\* the server has none it returns at once, raising nothing and changing
\* nothing; no step of it changes the server reference or any listener.
C22_ServerReset ==
    [][ /\ (~InReset(Owner) /\ pc'[Owner] = "reset_lock") => replay_state # None
        /\ (pc[Owner] = "reset_unlock" /\ pc'[Owner] = "reset_done")
              => current_index' = 0 /\ response'[Owner] = None
        /\ (~InReset(Owner) /\ pc'[Owner] = "reset_done"
               /\ <<pc, response>>' # <<pc, response>>)
              => /\ replay_state = None
                 /\ response'[Owner] = None
                 /\ UNCHANGED <<responses, current_index, lock, serverVars>>
        /\ (pc'[Owner] # pc[Owner]
               /\ (InReset(Owner) \/ pc'[Owner] \in {"reset_lock", "reset_done"}))
              => UNCHANGED <<server, listeners, replay_state>>
      ]_vars

\* reset() has returned with the cursor at 0 on a server that was started
\* and stopped.
C22_Witness ==
    /\ pc[Owner] = "reset_done"
    /\ replay_state # None
    /\ server = None
    /\ calls.stop = 1
    /\ Len(responses) >= 2
    /\ current_index = 0
    /\ nGets = 0

\* ============================================ claims: determinism
\* The tool-call ids the server makes up (line 187).
SynthesizedIds == { "call_" \o hex : hex \in HexPool }

\* A tool call, a message or delta, and a completion or chunk without what
\* is opaque in it: the completion id, the time of creation, and a tool-call
\* id that was made up.
OpaqueCall(call) ==
    IF "id" \in DOMAIN call /\ call.id \in SynthesizedIds
      THEN [call EXCEPT !.id = "opaque"] ELSE call

OpaqueMessage(message) ==
    IF "tool_calls" \in DOMAIN message
      THEN [message EXCEPT
              !.tool_calls = [i \in DOMAIN @ |-> OpaqueCall(@[i])]]
      ELSE message

OpaqueChoice(choice) ==
    IF "message" \in DOMAIN choice
      THEN [choice EXCEPT !.message = OpaqueMessage(@)]
      ELSE [choice EXCEPT !.delta = OpaqueMessage(@)]

OpaqueObject(object) ==
    [object EXCEPT !.id = "opaque", !.created = 0,
                   !.choices = [i \in DOMAIN @ |-> OpaqueChoice(@[i])]]

\* The content of a response: status, headers, and the body without what is
\* opaque in it.
Content(resp) ==
    IF resp.raised # "" \/ resp.status # 200 THEN resp
    ELSE IF IsSse(resp)
      THEN [resp EXCEPT
              !.body = [text |->
                 [i \in DOMAIN resp.body.text |->
                     IF resp.body.text[i] = DoneFrame
                       THEN DoneFrame
                       ELSE DataFrame(OpaqueObject(resp.body.text[i].payload.json))]]]
      ELSE [resp EXCEPT !.body = JsonDumps(OpaqueObject(@.json))]

LockWaits == {"gnr_lock", "peek_lock", "reset_lock"}
Critical == {"gnr_check", "gnr_read", "gnr_incr", "gnr_unlock",
             "peek_check", "peek_unlock", "reset_assign", "reset_unlock"}

Leaves(t, at) == pc[t] = at /\ pc'[t] # at

\* C25: under any interleaving of get_next_response and reset calls, a draw
\* that finds an event holds the lock, is the k-th draw since the last
\* reset exactly when the cursor is k-1, takes the event at the cursor and
\* nothing else, and moves the cursor to k: the events between two resets
\* come out as events[0], events[1], ... with no repeat and no skip.
C25_DrawsInOrder ==
    [][ \A t \in Threads :
          /\ Leaves(t, "gnr_read") =>
                /\ lock = t
                /\ ticket[t] = current_index + 1
                /\ ticket[t] <= Len(responses)
                /\ response'[t] = responses[ticket[t]]
                /\ pc'[t] = "gnr_incr"
          /\ Leaves(t, "gnr_incr") =>
                /\ lock = t
                /\ response[t] = responses[ticket[t]]
                /\ current_index' = ticket[t]
      ]_vars

\* A second draw holds the lock while a reset waits for it.
C25_Witness ==
    \E t, u \in Threads :
        /\ pc[t] = "gnr_incr" /\ ticket[t] = 2 /\ lock = t
        /\ response[t] = responses[2]
        /\ pc[u] = "reset_lock"

\* The calls that returned x.
ReturnedTo(x) == { t \in Threads : response[t] = x }

\* C26: when more threads than there are events each call
\* get_next_response() once, concurrently and without a reset, then once all
\* have returned every position was returned to exactly one call, the other
\* NThreads - M calls returned None, and the cursor is M.
C26_MoreCallsThanEvents ==
    (Len(responses) < NThreads /\ \A t \in Threads : pc[t] = "gnr_done")
        => /\ \A i \in 1..Len(responses) :
                 Cardinality(ReturnedTo(responses[i])) = 1
           /\ Cardinality(ReturnedTo(None)) = NThreads - Len(responses)
           /\ Cardinality(Threads \ ReturnedTo(None)) = Len(responses)
           /\ current_index = Len(responses)

C26_Witness ==
    /\ Len(responses) >= 1
    /\ Len(responses) < NThreads
    /\ \A t \in Threads : pc[t] = "gnr_done"
    /\ ReturnedTo(None) # {}

\* ============================================== claims: content blocks
\* The blocks of a content list that are tagged as text.
IsTextBlock(b) == "type" \in DOMAIN b /\ b.type = "text"
TextBlocks(items) == SelectSeq(items, IsTextBlock)

\* The texts of the first n blocks, one after the other (a text block that
\* carries no text has the empty text).
RECURSIVE TextsUpTo(_, _)
TextsUpTo(blocks, n) ==
    IF n = 0 THEN ""
    ELSE TextsUpTo(blocks, n - 1)
         \o (IF "text" \in DOMAIN blocks[n] THEN blocks[n].text ELSE "")

\* A chat request was answered from a message event whose content is a list.
BlockListAnswered ==
    /\ ChatAnswered
    /\ exchange.drawn # None
    /\ exchange.drawn.kind = "MessageEvent"
    /\ Truthy(exchange.drawn.llm_message)
    /\ IsList(Get(exchange.drawn.llm_message, "content", Str("")))

\* C27: for a message whose content is a list of blocks, the text of the
\* answer is the texts of the blocks tagged "text", in list order; every
\* other item adds nothing and raises nothing, and a list without a text
\* block gives the empty string.
C27_TextBlocksOnly ==
    BlockListAnswered =>
        LET blocks == TextBlocks(exchange.drawn.llm_message.content.list)
        IN  /\ exchange.resp.raised = ""
            /\ exchange.resp.status = 200
            /\ TextOf(exchange.resp) = Str(TextsUpTo(blocks, Len(blocks)))
            /\ blocks = <<>> => TextOf(exchange.resp) = Str("")

\* The list that mixes text blocks with other items was answered "ac".
C27_Witness ==
    /\ BlockListAnswered
    /\ Len(exchange.drawn.llm_message.content.list) = 6
    /\ TextOf(exchange.resp) = Str("ac")

\* ============================================== claims: tool-call values
\* The tool call of the unary message and of the first stream chunk.
UnaryCall(envelope) == envelope.completion.choices[1].message.tool_calls[1]
FirstChunkCall(envelope) == envelope.stream_chunks[1].choices[1].delta.tool_calls[1]

\* C28: in the envelope of a tool-call event the name is tool_call["name"]
\* when the key is there, else the event's tool_name when it is set, else
\* "unknown"; the arguments are tool_call["arguments"] when the key is
\* there, else "{}"; the id is tool_call["id"] when the key is there, else
\* the "call_<hex>" drawn for this conversion; and the unary message and the
\* stream chunks carry the same three values.
C28_ToolCallFallbacks ==
    \A i \in 1..Len(responses) :
        IsToolCall(responses[i]) =>
            \A rnd \in Entropy :
                LET event == responses[i]
                    tool_call == event.tool_call
                    envelope == ChatEnvelope(event, rnd)
                    name == IF "name" \in DOMAIN tool_call THEN tool_call.name
                            ELSE IF Truthy(event.tool_name) THEN event.tool_name.str
                            ELSE "unknown"
                    arguments == IF "arguments" \in DOMAIN tool_call
                                   THEN tool_call.arguments ELSE "{}"
                    id == IF "id" \in DOMAIN tool_call
                            THEN tool_call.id ELSE "call_" \o rnd.call_hex
                IN  /\ UnaryCall(envelope).function.name = name
                    /\ UnaryCall(envelope).function.arguments = arguments
                    /\ UnaryCall(envelope).id = id
                    /\ FirstChunkCall(envelope).function.name = name
                    /\ FirstChunkCall(envelope).id = id
                    /\ ArgumentsText(envelope.stream_chunks) = arguments

\* A tool call without a name, of an event whose tool_name is set, was
\* answered with the event's tool_name and the tool call's own (empty)
\* arguments and id.
C28_Witness ==
    /\ ChatAnswered
    /\ IsToolCall(exchange.drawn)
    /\ "name" \notin DOMAIN exchange.drawn.tool_call
    /\ exchange.drawn.tool_name = Str("file_editor")
    /\ ~WantsStream(exchange.req)
    /\ exchange.resp.body.json.choices[1].message.tool_calls[1] =
          [id |-> "call_2", type |-> "function",
           function |-> [name |-> "file_editor", arguments |-> ""]]

\* ============================================== claims: no trajectory
\* C29: a server started without a trajectory has an empty replay state: a
\* draw never gets past the test of line 57, GET /health always reports
\* responses_remaining 0, and every well-formed chat request is answered
\* 200 with the default "Task completed." response (finish_reason "stop"),
\* the cursor staying at 0.
C29_NoTrajectory ==
    /\ [](/\ replay_state # None => responses = <<>>
          /\ current_index = 0
          /\ \A t \in Threads : pc[t] \notin {"gnr_read", "gnr_incr"})
    /\ [][ /\ (Returns /\ IsHealthGet(exchange'.req)) =>
                 /\ exchange'.resp.status = 200
                 /\ exchange'.resp.body.json.responses_remaining = 0
           /\ (Returns /\ WellFormedChat(exchange'.req)) =>
                 /\ exchange'.drawn = None
                 /\ exchange'.resp.raised = ""
                 /\ exchange'.resp.status = 200
                 /\ IsSse(exchange'.resp) = WantsStream(exchange'.req)
                 /\ TextOf(exchange'.resp) = Str("Task completed.")
                 /\ FinishOf(exchange'.resp) = Str("stop")
                 /\ current_index' = 0
         ]_vars

\* The server was stopped and started again, and a second chat request of
\* the new run was answered with the default response.
C29_Witness ==
    /\ trajectory = None
    /\ IsRunning
    /\ calls.start = 2
    /\ exchange # NoExchange
    /\ WellFormedChat(exchange.req)
    /\ nGets >= 1
    /\ TextOf(exchange.resp) = Str("Task completed.")
    /\ current_index = 0

\* ============================================== claims: the event list
\* C30: the list of events of a replay state is never modified after
\* construction: no step of get_next_response, peek_next_response or reset,
\* and no step of the handler on any request, changes its content, order
\* or length.
C30_ResponsesFixed ==
    [][ /\ Len(responses') = Len(responses)
        /\ \A i \in 1..Len(responses) : responses'[i] = responses[i]
      ]_vars

\* A chat request was answered from the list while the test thread, which
\* has drawn and reset, is inside peek_next_response.
C30_Witness ==
    /\ Len(responses) = MaxEvents
    /\ ChatAnswered
    /\ exchange.drawn # None
    /\ pc[Tester] = "peek_unlock"
    /\ response[Tester] = responses[current_index + 1]
    /\ current_index >= 1

\* ============================================== claims: restarts
\* C31: for any sequence of start() and stop() calls on one MockLLMServer,
\* start() called again without a stop() in between included, no listener
\* that the instance started is running once a stop() call has returned.
C31_StopStopsAll ==
    [][ StopCalled => NoListenerRunning(listeners') ]_vars

StartCalled == calls'.start = calls.start + 1

\* C32: every start() installs a new replay state with cursor 0 over the
\* whole response list of the trajectory, however many events were drawn
\* before; so after a start() (a restart included) the first well-formed
\* chat request is answered with the conversion of events[0], and a
\* GET /health that comes before any draw reports len(events).
C32_StartIsFresh ==
    [][ /\ StartCalled =>
              /\ replay_state' # None
              /\ replay_state' # replay_state
              /\ responses' = trajectory.llm_responses
              /\ current_index' = 0
        /\ (Returns /\ WellFormedChat(exchange'.req) /\ exchange'.ticket = 1
                    /\ Len(trajectory.llm_responses) >= 1) =>
              /\ exchange'.drawn = trajectory.llm_responses[1]
              /\ \E rnd \in Entropy :
                    exchange'.resp =
                        ChatResponse(convert_event(trajectory.llm_responses[1], rnd),
                                     WantsStream(exchange'.req))
        /\ (Returns /\ IsHealthGet(exchange'.req) /\ nGets = 0) =>
              exchange'.resp.body.json.responses_remaining =
                  Len(trajectory.llm_responses)
      ]_vars

\* The server was stopped and started again, and the first chat request of
\* the second run was answered with the first event.
C32_Witness ==
    /\ calls.start = 2
    /\ Len(listeners) = 2
    /\ listeners[1].stops = 1
    /\ IsRunning
    /\ Len(responses) = MaxEvents
    /\ ChatAnswered
    /\ exchange.ticket = 1
    /\ exchange.drawn = responses[1]
    /\ current_index = 1

\* ============================================== claims: completion ids
\* The events of the list, and no event (the draw past the end).
Convertible == {None} \cup { responses[i] : i \in 1..Len(responses) }

\* C33: within one envelope the completion and each of the three stream
\* chunks carry the same completion id, and that id is "chatcmpl-" and the
\* uuid4 digits drawn in this very conversion (convert_event or
\* create_default_response): conversions whose draws differ give envelopes
\* whose ids differ, whatever the event and whatever was converted before.
C33_CompletionId ==
    /\ \A event \in Convertible : \A rnd \in Entropy :
          LET envelope == ChatEnvelope(event, rnd)
          IN  /\ Len(envelope.stream_chunks) = 3
              /\ envelope.completion.id = "chatcmpl-" \o rnd.hex
              /\ \A i \in 1..3 :
                    envelope.stream_chunks[i].id = envelope.completion.id
    /\ \A e1, e2 \in Convertible : \A r1, r2 \in Entropy :
          r1.hex # r2.hex =>
              ChatEnvelope(e1, r1).completion.id # ChatEnvelope(e2, r2).completion.id
    /\ (ChatAnswered /\ WantsStream(exchange.req)) =>
          /\ Len(Chunks(exchange.resp)) = 3
          /\ \E hex \in HexPool :
                \A i \in 1..3 : Chunks(exchange.resp)[i].id = "chatcmpl-" \o hex

\* The second conversion on a list of one event, the default response, was
\* streamed under the other id of the pool.
C33_Witness ==
    /\ ChatAnswered
    /\ WantsStream(exchange.req)
    /\ Len(responses) = 1
    /\ exchange.ticket = 2
    /\ exchange.drawn = None
    /\ \A i \in 1..3 : Chunks(exchange.resp)[i].id = "chatcmpl-9f8e"

\* ============================================== claims: MCP commands
\* The handler handle_mcp_command calls for a command, if any.
HandlerOf(command) ==
    CASE command = Str("add") -> << "handle_mcp_add" >>
      [] command = Str("remove") -> << "handle_mcp_remove" >>
      [] command = Str("list") -> << "handle_mcp_list" >>
      [] command = Str("get") -> << "handle_mcp_get" >>
      [] OTHER -> <<>>

\* The call of handle_mcp_command is over: it returned or an exception left it.
McpDone == cli.pc \in {"returned", "raised"}

\* The first line each handler prints when its operation went through.
SuccessLines ==
    { "<green>Successfully added MCP server '" \o n \o "'</green>" : n \in Names }
    \cup { "<green>Successfully removed MCP server '" \o n \o "'</green>" : n \in Names }
    \cup { "<white>MCP server '" \o n \o "':</white>" : n \in Names }
    \cup { "<white>Configured MCP servers (" \o Count(k) \o "):</white>" : k \in 1..2 }
    \cup { "<yellow>No MCP servers configured</yellow>" }

Printed(line) == \E i \in 1..Len(printed) : printed[i] = line

\* C34: handle_mcp_command calls exactly one of the four handlers, the one
\* args.mcp_command names, and for any other value calls none and ends with
\* SystemExit(1); when the operation of a handler raises
\* MCPConfigurationError, the error is printed, the call ends with
\* SystemExit(1) and the handler's success message is never printed.
C34_McpDispatch ==
    /\ cli.pc \notin {"not_called", "called"} => cli.ran = HandlerOf(args.mcp_command)
    /\ (McpDone /\ HandlerOf(args.mcp_command) = <<>>) => cli.raised = "SystemExit(1)"
    /\ cli.e # None => \A line \in SuccessLines : ~Printed(line)
    /\ (McpDone /\ cli.e # None) =>
          /\ Printed("<red>Error: " \o cli.e.str \o "</red>")
          /\ cli.raised = "SystemExit(1)"

=============================================================================
